---- MODULE Spec2Model ----
(***************************************************************************)
(* Model of the pre-sales chatbot's turn pipeline:                         *)
(*   app/chat_handler.py            process_chat_message and its helpers   *)
(*   app/langflow/langflow_integration.py   LangFlowIntegration            *)
(*   app/langflow/pipeline_config.py        extraction, gate, storage      *)
(*   app/database_handler.py        the TinyDB tables                      *)
(* Texts are real strings; the string operators of Sequences (Len, SubSeq, *)
(* \o) are applied to them character by character, as the Python code's    *)
(* str methods and regular expressions are.                                *)
(***************************************************************************)
EXTENDS Integers, Sequences, FiniteSets, TLC

(***************************************************************************)
(* Python values                                                           *)
(***************************************************************************)
\* Python's None, for Optional[str] values (no text of the model equals it).
None == "<None>"

\* "x = v; return F(x)": v is evaluated once and named
Bind(v, F(_)) == CHOOSE r \in {F(x) : x \in {v}} : TRUE

Min(S) == CHOOSE x \in S : \A y \in S : x <= y

Max(S) == CHOOSE x \in S : \A y \in S : x >= y

\* the smallest element of a set of numbers, 0 for the empty set
Least(S) == IF S = {} THEN 0 ELSE Min(S)

\* the largest element of a set of numbers, 0 for the empty set
Greatest(S) == IF S = {} THEN 0 ELSE Max(S)

(***************************************************************************)
(* str methods                                                             *)
(***************************************************************************)
UPPER == "ABCDEFGHIJKLMNOPQRSTUVWXYZ"

LOWER == "abcdefghijklmnopqrstuvwxyz"

DIGITS == "0123456789"

\* the character of s at position i (a one-character string)
CharAt(s, i) == SubSeq(s, i, i)

\* c in s, for a single character c
HasChar(s, c) == \E i \in 1..Len(s) : CharAt(s, i) = c

\* s[i-1 : i-1+len(lit)] == lit   (positions counted from 1)
StartsAt(s, i, lit) ==
    /\ i >= 1
    /\ i + Len(lit) - 1 <= Len(s)
    /\ SubSeq(s, i, i + Len(lit) - 1) = lit

\* lit in s
Contains(s, lit) == \E i \in 1..(Len(s) - Len(lit) + 1) : StartsAt(s, i, lit)

\* str.lower() of one character
LowerChar(c) ==
    IF HasChar(UPPER, c)
    THEN CharAt(LOWER, CHOOSE i \in 1..26 : CharAt(UPPER, i) = c)
    ELSE c

RECURSIVE Lower(_)
\* str.lower()
Lower(s) ==
    IF Len(s) = 0 THEN ""
    ELSE IF Len(s) = 1 THEN LowerChar(s)
    ELSE Lower(SubSeq(s, 1, Len(s) \div 2)) \o Lower(SubSeq(s, Len(s) \div 2 + 1, Len(s)))

\* \s of the re module, for the characters that occur in the model's texts
IsSpace(c) == c = " "

RECURSIVE LStrip(_)
LStrip(s) == IF s # "" /\ IsSpace(CharAt(s, 1)) THEN LStrip(SubSeq(s, 2, Len(s))) ELSE s

RECURSIVE RStrip(_)
RStrip(s) ==
    IF s # "" /\ IsSpace(CharAt(s, Len(s))) THEN RStrip(SubSeq(s, 1, Len(s) - 1)) ELSE s

\* str.strip()
Strip(s) == RStrip(LStrip(s))

RECURSIVE Join(_)
\* " ".join(parts)
Join(parts) ==
    IF parts = <<>> THEN ""
    ELSE IF Len(parts) = 1 THEN parts[1]
    ELSE parts[1] \o " " \o Join(Tail(parts))

(***************************************************************************)
(* pipeline_config.detect_project_type                                     *)
(***************************************************************************)
STANDARD_PROJECT_TYPES ==
    <<"e-commerce", "corporate", "blog", "mobile app", "web application", "api", "dashboard">>

ECOMMERCE_KEYWORDS == {"shop", "store", "product", "cart", "checkout", "payment"}

CORPORATE_KEYWORDS == {"company", "business", "corporate", "professional", "organization"}

BLOG_KEYWORDS == {"blog", "content", "article", "post", "cms"}

\* the text the code analyses: " ".join([msg["content"] for msg in conversation_history])
ConversationText(conversation_history) ==
    Join([i \in 1..Len(conversation_history) |-> conversation_history[i].content])

\* the standard project type that occurs earliest in the text; 0 if none
EarliestTypeIn(text) ==
    Least({i \in 1..Len(STANDARD_PROJECT_TYPES) :
            /\ Contains(text, STANDARD_PROJECT_TYPES[i])
            /\ \A j \in 1..Len(STANDARD_PROJECT_TYPES) :
                    Contains(text, STANDARD_PROJECT_TYPES[j]) =>
                        Min({p \in 1..Len(text) : StartsAt(text, p, STANDARD_PROJECT_TYPES[i])})
                        <= Min({p \in 1..Len(text) : StartsAt(text, p, STANDARD_PROJECT_TYPES[j])})})

\* the first standard project type whose name the lower-cased text holds; 0 if none
StandardTypeIn(text) ==
    Least({i \in 1..Len(STANDARD_PROJECT_TYPES) :
                Contains(text, Lower(STANDARD_PROJECT_TYPES[i]))})

\* detect_project_type on the lower-cased joined text
DetectInLower(text) ==
    IF StandardTypeIn(text) # 0 THEN STANDARD_PROJECT_TYPES[StandardTypeIn(text)]
    ELSE IF \E k \in ECOMMERCE_KEYWORDS : Contains(text, k) THEN "e-commerce"
    ELSE IF \E k \in CORPORATE_KEYWORDS : Contains(text, k) THEN "corporate"
    ELSE IF \E k \in BLOG_KEYWORDS : Contains(text, k) THEN "blog"
    ELSE None

\* detect_project_type on the joined text
DetectInText(conversation_text) == DetectInLower(Lower(conversation_text))

detect_project_type(conversation_history) ==
    DetectInText(ConversationText(conversation_history))

(***************************************************************************)
(* LangFlowIntegration.process_message: intent keywords                    *)
(***************************************************************************)
BUDGET_KEYWORDS ==
    {"budget", "cost", "price", "pricing", "how much", "expensive", "cheap", "afford"}

TIMELINE_KEYWORDS ==
    {"timeline", "time", "duration", "how long", "schedule", "deadline", "when"}

is_budget_question(message) ==
    \E keyword \in BUDGET_KEYWORDS : Contains(Lower(message), keyword)

is_timeline_question(message) ==
    \E keyword \in TIMELINE_KEYWORDS : Contains(Lower(message), keyword)

(***************************************************************************)
(* The regular expressions of pipeline_config.extract_with_regex and of    *)
(* the e-mail extraction, matched the way re.search matches them: leftmost *)
(* start, alternatives in their written order, greedy or lazy repetition.  *)
(* A pattern is a sequence of groups of alternative literals, followed by  *)
(* its capturing group.                                                    *)
(***************************************************************************)
\* the characters of a string
Chars(s) == {CharAt(s, i) : i \in 1..Len(s)}

ALPHA == Chars(UPPER) \cup Chars(LOWER)

ALNUM == ALPHA \cup Chars(DIGITS)

\* \w
WORD == ALNUM \cup {"_"}

IsWord(c) == c \in WORD

\* the character classes of the patterns, by their text; [^.] is a complement
CLASSES ==
    ("[A-Za-z\\s]" :> (ALPHA \cup {" "})) @@
    ("[A-Za-z0-9\\s&]" :> (ALNUM \cup {" ", "&"})) @@
    ("[\\d,]" :> (Chars(DIGITS) \cup {","})) @@
    ("\\s" :> {" "}) @@
    ("[A-Za-z0-9._%+-]" :> (ALNUM \cup Chars("._%+-"))) @@
    ("[A-Za-z0-9.-]" :> (ALNUM \cup Chars(".-"))) @@
    ("[A-Z|a-z]" :> (ALPHA \cup {"|"}))

InClass(cls, c) == IF cls = "[^.]" THEN c # "." ELSE c \in CLASSES[cls]

\* the length of the longest run of characters of the class that starts at p
RunLen(s, p, cls) ==
    IF p < 1 \/ p > Len(s) THEN 0
    ELSE IF \A q \in p..Len(s) : InClass(cls, CharAt(s, q)) THEN Len(s) + 1 - p
    ELSE (CHOOSE q \in p..Len(s) :
            /\ ~InClass(cls, CharAt(s, q))
            /\ \A r \in p..(q - 1) : InClass(cls, CharAt(s, r))) - p

\* \b at position p (between the characters p-1 and p)
WordBoundary(s, p) ==
    LET before == p - 1 >= 1 /\ p - 1 <= Len(s) /\ IsWord(CharAt(s, p - 1))
        after  == p >= 1 /\ p <= Len(s) /\ IsWord(CharAt(s, p))
    IN  before # after

RECURSIVE Ends(_, _, _)
RECURSIVE EndsFrom(_, _, _, _)
\* the positions after a match of the groups that starts at i, in the order
\* in which backtracking tries them
Ends(s, i, groups) ==
    IF groups = <<>> THEN <<i>> ELSE EndsFrom(s, i, groups, 1)

EndsFrom(s, i, groups, j) ==
    IF j > Len(groups[1]) THEN <<>>
    ELSE (IF StartsAt(s, i, groups[1][j])
          THEN Ends(s, i + Len(groups[1][j]), Tail(groups))
          ELSE <<>>) \o EndsFrom(s, i, groups, j + 1)

\* (?:\s+and|\s*,|\s*\.|$) at position q
NameTerminator(s, q) ==
    Bind(RunLen(s, q, "\\s"), LAMBDA sp :
        \/ sp >= 1 /\ StartsAt(s, q + sp, "and")
        \/ StartsAt(s, q + sp, ",")
        \/ StartsAt(s, q + sp, ".")
        \/ q = Len(s) + 1)

\* ([\d,]+(?:\s*-\s*\$?[\d,]+)?) at p, after its first n1 >= 1 characters:
\* the optional range part is taken when it matches
RangeLen(s, p, n1) ==
    Bind(p + n1 + RunLen(s, p + n1, "\\s"), LAMBDA q :
        IF ~StartsAt(s, q, "-") THEN n1
        ELSE Bind(q + 1 + RunLen(s, q + 1, "\\s"), LAMBDA r :
            Bind(IF StartsAt(s, r, "$") THEN r + 1 ELSE r, LAMBDA r2 :
                IF RunLen(s, r2, "[\\d,]") > 0 THEN r2 + RunLen(s, r2, "[\\d,]") - p
                ELSE IF RunLen(s, r, "[\\d,]") > 0 THEN r + RunLen(s, r, "[\\d,]") - p
                ELSE n1)))

\* the length of the capturing group matched at position p; 0 if it does not match
CaptureLen(s, p, cap) ==
    CASE cap = "([A-Za-z\\s]+?)(?:\\s+and|\\s*,|\\s*\\.|$)" ->
            Least({n \in 1..RunLen(s, p, "[A-Za-z\\s]") : NameTerminator(s, p + n)})
      [] cap = "([A-Za-z0-9\\s&]+)" -> RunLen(s, p, "[A-Za-z0-9\\s&]")
      [] cap = "([^.]+)" -> RunLen(s, p, "[^.]")
      [] cap = "([\\d,]+(?:\\s*-\\s*\\$?[\\d,]+)?)" ->
            Bind(RunLen(s, p, "[\\d,]"), LAMBDA n1 :
                IF n1 = 0 THEN 0 ELSE RangeLen(s, p, n1))
      [] cap = "" -> 0

\* where the capturing group starts in the first match that backtracking
\* finds from start i; 0 if there is no match from i
MatchAt(s, i, groups, cap) ==
    Bind(Ends(s, i, groups), LAMBDA es :
        Bind(Least({k \in 1..Len(es) : cap = "" \/ CaptureLen(s, es[k], cap) > 0}),
             LAMBDA k : IF k = 0 THEN 0 ELSE es[k]))

\* re.search(groups + cap, s): the text of the capturing group, or None;
\* for a pattern without capturing group (cap = ""), "" when it matches
Search(s, groups, cap) ==
    Bind(Least({i \in 1..Len(s) : MatchAt(s, i, groups, cap) > 0}), LAMBDA i0 :
        IF i0 = 0 THEN None
        ELSE IF cap = "" THEN ""
        ELSE Bind(MatchAt(s, i0, groups, cap), LAMBDA p :
                SubSeq(s, p, p + CaptureLen(s, p, cap) - 1)))

\* ([A-Za-z\s]+?) here, from i: the length of the lazy group; 0 if no match
NameHereLen(s, i) ==
    Least({n \in 1..RunLen(s, i, "[A-Za-z\\s]") : StartsAt(s, i + n, " here")})

\* re.search(r"([A-Za-z\s]+?) here", s): group 1 or None
SearchNameHere(s) ==
    Bind(Least({i \in 1..Len(s) : NameHereLen(s, i) > 0}), LAMBDA i0 :
        IF i0 = 0 THEN None ELSE SubSeq(s, i0, i0 + NameHereLen(s, i0) - 1))

\* ([A-Za-z0-9\s&]+) (?:company|business), from i: the length of the greedy
\* group; 0 if no match
BusinessBeforeLen(s, i) ==
    Greatest({n \in 1..RunLen(s, i, "[A-Za-z0-9\\s&]") :
                \/ StartsAt(s, i + n, " company")
                \/ StartsAt(s, i + n, " business")})

\* re.search(r"([A-Za-z0-9\s&]+) (?:company|business)", s): group 1 or None
SearchBusinessBefore(s) ==
    Bind(Least({i \in 1..Len(s) : BusinessBeforeLen(s, i) > 0}), LAMBDA i0 :
        IF i0 = 0 THEN None ELSE SubSeq(s, i0, i0 + BusinessBeforeLen(s, i0) - 1))

\* [A-Z|a-z]{2,}\b from t0: the length of the greedy match; 0 if none
TldLen(s, t0) ==
    Greatest({t \in 2..RunLen(s, t0, "[A-Z|a-z]") : WordBoundary(s, t0 + t)})

\* @[A-Za-z0-9.-]+\.[A-Z|a-z]{2,}\b from the "@" at position a: its length
\* (greedy domain part); 0 if none
DomainLen(s, a) ==
    IF ~StartsAt(s, a, "@") THEN 0
    ELSE Bind(Greatest({d \in 1..RunLen(s, a + 1, "[A-Za-z0-9.-]") :
                            StartsAt(s, a + 1 + d, ".") /\ TldLen(s, a + 2 + d) > 0}),
              LAMBDA d : IF d = 0 THEN 0 ELSE 2 + d + TldLen(s, a + 2 + d))

\* the length of a match of
\*   \b[A-Za-z0-9._%+-]+@[A-Za-z0-9.-]+\.[A-Z|a-z]{2,}\b
\* that starts at i; 0 if there is none
EmailLenAt(s, i) ==
    IF ~WordBoundary(s, i) THEN 0
    ELSE Bind(RunLen(s, i, "[A-Za-z0-9._%+-]"), LAMBDA n :
            IF n = 0 \/ DomainLen(s, i + n) = 0 THEN 0 ELSE n + DomainLen(s, i + n))

\* re.findall(email_pattern, s)[0], or None when there is no match
FirstEmail(s) ==
    Bind(Least({i \in 1..Len(s) : EmailLenAt(s, i) > 0}), LAMBDA i0 :
        IF i0 = 0 THEN None ELSE SubSeq(s, i0, i0 + EmailLenAt(s, i0) - 1))

(***************************************************************************)
(* pipeline_config.extract_with_regex                                      *)
(***************************************************************************)
NAME_CAPTURE == "([A-Za-z\\s]+?)(?:\\s+and|\\s*,|\\s*\\.|$)"

\* a pattern that ends with its capturing group: the groups of alternative
\* literals before it, then the capturing group
After(groups, cap) == [form |-> "after", groups |-> groups, cap |-> cap]

name_patterns == <<
    After(<< <<"my name is ">> >>, NAME_CAPTURE),
    After(<< <<"I'm ">> >>, NAME_CAPTURE),
    After(<< <<"I am ">> >>, NAME_CAPTURE),
    [form |-> "name here"] >>

business_patterns == <<
    After(<< <<"my", "our">>, <<" ">>, <<"company", "business">>, <<" ">>,
             <<"is", "name is">>, <<" ">> >>, "([A-Za-z0-9\\s&]+)"),
    After(<< <<"I work for", "I represent", "I own">>, <<" ">> >>, "([A-Za-z0-9\\s&]+)"),
    [form |-> "business before"] >>

description_patterns == <<
    After(<< <<"looking to", "want to", "need to", "interested in">>, <<" ">> >>, "([^.]+)"),
    After(<< <<"build", "create", "develop">>, <<" ">> >>, "([^.]+)"),
    After(<< <<"project", "website", "application", "app">>, <<" ">>,
             <<"for", "that">>, <<" ">> >>, "([^.]+)") >>

timeline_patterns == <<
    After(<< <<"timeline", "timeframe", "deadline">>, <<" ">>, <<"is", "of">>, <<" ">> >>,
          "([^.]+)"),
    After(<< <<"complete", "finish", "deliver">>, <<" ">>, <<"in", "within">>, <<" ">> >>,
          "([^.]+)"),
    After(<< <<"need", "want">>, <<" it ">>, <<"in", "within", "by">>, <<" ">> >>,
          "([^.]+)") >>

budget_patterns == <<
    After(<< <<"budget", "price", "cost">>, <<" ">>, <<"is", "of">>, <<" ">> >>, "([^.]+)"),
    After(<< <<"willing to", "can", "could">>, <<" ">>, <<"pay", "spend">>, <<" ">> >>,
          "([^.]+)"),
    After(<< <<"around", "about", "approximately">>, <<" $">> >>,
          "([\\d,]+(?:\\s*-\\s*\\$?[\\d,]+)?)") >>

features_patterns == <<
    After(<< <<"features", "functionality">>, <<" ">>,
             <<"like", "such as", "including">>, <<" ">> >>, "([^.]+)"),
    After(<< <<"need", "want", "require">>, <<" ">>, <<"to have", "to include">>,
             <<" ">> >>, "([^.]+)"),
    After(<< <<"should have", "must have", "would like">>, <<" ">> >>, "([^.]+)") >>

\* the consent patterns are matched with re.IGNORECASE: the lower-cased text
\* against the (lower-case) patterns
consent_patterns == <<
    After(<< <<"yes", "sure", "okay", "fine", "alright">>, <<",", ".", "">>,
             <<" ">>, <<"you can", "please">>, <<" ">>,
             <<"contact", "email", "call", "follow up">> >>, ""),
    After(<< <<"feel free to", "please">>, <<" ">>,
             <<"contact", "email", "call", "follow up">> >>, ""),
    After(<< <<"happy to", "willing to">>, <<" ">>, <<"discuss", "talk", "chat">>,
             <<" ">>, <<"more", "further", "again">> >>, "") >>

\* the patterns extract_with_regex tries for an entity kind, in their order
patterns_of(entity_type) ==
    CASE entity_type = "client name" -> name_patterns
      [] entity_type = "business name" -> business_patterns
      [] entity_type = "project description" -> description_patterns
      [] entity_type = "project timeline" -> timeline_patterns
      [] entity_type = "budget range" -> budget_patterns
      [] entity_type = "project features" -> features_patterns
      [] entity_type = "follow-up consent (yes/no)" -> consent_patterns
      [] OTHER -> <<>>

\* re.search(pattern, s): group 1 ("" if the pattern has none), or None
SearchPattern(s, pattern) ==
    CASE pattern.form = "after" -> Search(s, pattern.groups, pattern.cap)
      [] pattern.form = "name here" -> SearchNameHere(s)
      [] pattern.form = "business before" -> SearchBusinessBefore(s)

\* the result of the first pattern that matches, in the order of the patterns
FirstMatch(s, patterns) ==
    Bind(Least({k \in 1..Len(patterns) : SearchPattern(s, patterns[k]) # None}),
         LAMBDA k : IF k = 0 THEN None ELSE SearchPattern(s, patterns[k]))

\* matches.group(1).strip()
StripFirst(text) == IF text = None THEN None ELSE Strip(text)

\* an extraction whose consent patterns are matched case-sensitively
extract_case_sensitive(conversation_text, entity_type) ==
    IF entity_type = "follow-up consent (yes/no)"
    THEN IF FirstMatch(conversation_text, consent_patterns) # None
         THEN "yes" ELSE "no"
    ELSE StripFirst(FirstMatch(conversation_text, patterns_of(entity_type)))

extract_with_regex(conversation_text, entity_type) ==
    IF entity_type = "follow-up consent (yes/no)"
    THEN IF FirstMatch(Lower(conversation_text), consent_patterns) # None
         THEN "yes" ELSE "no"
    ELSE StripFirst(FirstMatch(conversation_text, patterns_of(entity_type)))

(***************************************************************************)
(* Inputs and the answers of the completion capability                     *)
(***************************************************************************)
\* the number of turns (process_chat_message calls) of a behaviour
MaxTurns == 2

Users == {"u1", "u2"}

M_FULL == "I am John Smith. My email is john@example.com. Yes, please contact me."

M_BUDGET == "How much does an e-commerce site cost? You can contact me at john@example.com."

\* the message texts a client sends: one that holds a complete lead, and a
\* budget question that holds a contact address but no name
Messages == {M_FULL, M_BUDGET}

\* a session id a client makes up itself
CLIENT_SESSION == "s1"

\* the texts the model answers a chat turn with
Completions == {"Sure."}

\* an apology in other words
OTHER_APOLOGY == "Something went wrong."

\* chat_handler.py: the text generate_response and process_chat_message return
\* when the completion call raises
APOLOGY == "I'm sorry, I encountered an error. Please try again later."

\* langflow_integration.py: the text process_message returns when it catches
PROCESSING_APOLOGY ==
    "I'm sorry, I encountered an error processing your message. Please try again later."

\* chat_handler.get_system_prompt(): the first sentence of the default prompt
\* stands for the whole prompt text
DEFAULT_SYSTEM_PROMPT == "You are a pre-sales chatbot for a software development company."

\* str(uuid.uuid4()): the n-th identifier drawn; uuid4 draws 122 random bits,
\* which the model takes to be a value never drawn or seen before
Uuid(n) == "uuid-" \o CharAt(DIGITS, n + 1)

\* a generator that returns the identifier it drew first
same_session_id(n) == Uuid(1)

\* chat_handler.generate_session_id, for the n-th identifier drawn
generate_session_id(n) == Uuid(n)

ENTITY_KINDS == <<"client name", "business name", "project description",
                  "project features", "project timeline", "budget range",
                  "follow-up consent (yes/no)">>

\* an absence list that misses the token the prompt itself asks for
TOKENS_WITHOUT_NOT_FOUND == {"none", "n/a", "unknown"}

\* the answers extract_entity_with_llm treats as "nothing found"
NOT_FOUND_TOKENS == {"not found", "none", "n/a", "unknown"}

\* how the completion capability spells "nothing found" for each kind (the
\* prompt asks for 'Not found'; models answer in other words and cases too)
ABSENCE_ANSWERS == <<"Not found", " NONE ", "n/a", "Unknown", "not found", "N/A", "none">>

\* what the completion capability may answer to an extraction prompt: an
\* absence answer, the name the conversation holds, or, asked for consent
\* about a conversation that mentions contact, that there is none
LlmExtractionAnswers(conversation_text, entity_type) ==
    {ABSENCE_ANSWERS[i] : i \in {k \in 1..Len(ENTITY_KINDS) : ENTITY_KINDS[k] = entity_type}}
    \cup (IF entity_type = "client name" /\ Contains(conversation_text, "John Smith")
          THEN {" John Smith "} ELSE {})
    \cup (IF entity_type = "follow-up consent (yes/no)"
             /\ Contains(Lower(conversation_text), "contact me")
          THEN {"No"} ELSE {})

\* hash(conversation_text): the model keeps the text itself (no collisions)
Hash(conversation_text) == conversation_text

max_retries == 2

(***************************************************************************)
(* The texts the pipeline analyses, and their analyses computed once.      *)
(***************************************************************************)
\* what an assistant message of a stored conversation can hold
Replies == Completions \cup {APOLOGY, PROCESSING_APOLOGY}

\* the most exchanges a loaded history holds
MaxExchanges == IF MaxTurns > 2 THEN MaxTurns - 1 ELSE 1

RECURSIVE Transcripts(_)
\* the joined texts of n exchanges (user message, assistant reply)
Transcripts(n) ==
    LET one == {m \o " " \o r : m \in Messages, r \in Replies}
    IN  IF n = 1 THEN one
        ELSE {t \o " " \o e : t \in Transcripts(n - 1), e \in one}

RECURSIVE Retried(_)
\* the joined texts of n turns whose first one was answered twice: its save
\* raised, and the direct completion call appended the user message and a
\* second reply
Retried(n) ==
    IF n = 1
    THEN {m \o " " \o r \o " " \o m \o " " \o c :
            m \in Messages, r \in Replies, c \in Completions}
    ELSE {t \o " " \o m \o " " \o r : t \in Retried(n - 1), m \in Messages, r \in Replies}

\* every text detect_project_type or extract_lead_information is given
AllTexts ==
    Messages \cup UNION {Transcripts(n) \cup Retried(n) : n \in 1..MaxExchanges}

\* for each text: the regex extraction per entity kind, the first e-mail
\* address, the project type, and the answers the completion capability may
\* give per entity kind
Analysis == [text \in AllTexts |-> [
    regex        |-> [i \in 1..Len(ENTITY_KINDS) |-> extract_with_regex(text, ENTITY_KINDS[i])],
    email        |-> FirstEmail(text),
    project_type |-> DetectInText(text),
    answers      |-> [i \in 1..Len(ENTITY_KINDS) |->
                        LlmExtractionAnswers(text, ENTITY_KINDS[i])] ]] @@ <<>>

\* every answer of the completion capability to an extraction prompt
AllAnswers == UNION {Analysis[text].answers[i] : text \in AllTexts, i \in 1..Len(ENTITY_KINDS)}

\* extract_entity_with_llm on an answer: extracted_text = content.strip(), and
\* None if extracted_text.lower() is an absence token
Extracted == [answer \in AllAnswers |->
    IF Lower(Strip(answer)) \in NOT_FOUND_TOKENS THEN None ELSE Strip(answer)] @@ <<>>

\* the branch process_message takes for a message
\* a classification that checks the timeline keywords first
TimelineFirst(message) ==
    IF is_timeline_question(message) THEN "timeline"
    ELSE IF is_budget_question(message) THEN "budget"
    ELSE "default"

BranchOf(message) ==
    IF is_budget_question(message) THEN "budget"
    ELSE IF is_timeline_question(message) THEN "timeline"
    ELSE "default"

Branch == [message \in Messages |-> BranchOf(message)]

(***************************************************************************)
(* State                                                                   *)
(***************************************************************************)
VARIABLES
    conversations,  \* the "conversations" table: documents in insertion order
    leads,          \* the "leads" table: documents in insertion order
    cache,          \* extract_entity_with_llm.cache: key -> extracted text
    first_returned, \* history: key -> what the first call with these arguments returned
    uuids,          \* how many identifiers generate_session_id has drawn
    started,        \* how many process_chat_message calls have begun
    langflow,       \* whether "import app.langflow..." succeeds in this process
    turn,           \* per request handler: the locals of its process_chat_message call
    faults,         \* whether the document store can reject a write or be unavailable
    db,             \* a DatabaseHandler's database: a "test" table and the guidance tables
    probe,          \* the last call made on its own (a DatabaseHandler method,
                    \* detect_project_type) with its arguments and its result
    live            \* history: the ids add_document("test", ...) returned and no
                    \* delete_document that returned True has named since

vars == <<conversations, leads, cache, first_returned, uuids, started, langflow, turn,
          faults, db, probe, live>>

Msg(role, content) == [role |-> role, content |-> content]

\* lead_data as extract_lead_information initialises it
EmptyLead == [
    client_name |-> None,
    client_business |-> None,
    contact_information |-> None,
    project_description |-> None,
    features |-> <<>>,
    timeline |-> None,
    budget_range |-> None,
    confirmed_follow_up |-> FALSE ]

\* no extract_entity_with_llm call has returned yet
NoCall == [entity_type |-> None, value |-> None, calls |-> 0, failed |-> 0,
           cached |-> FALSE, answer |-> None, repeated |-> FALSE, earlier |-> None,
           slept |-> <<>>]

\* a handler that is not inside process_chat_message
IdleTurn == [
    pc |-> "idle",
    user_id |-> None,
    message |-> None,
    session_id_arg |-> None,
    session_id |-> None,
    loaded |-> <<>>,
    conversation_history |-> <<>>,
    branch |-> None,
    project_type |-> None,
    llm_messages |-> <<>>,
    completion_failed |-> FALSE,
    response_text |-> None,
    extraction_text |-> None,
    lead_data |-> EmptyLead,
    ent |-> 0,
    retry_count |-> 0,
    calls |-> 0,
    slept |-> <<>>,             \* the seconds of each time.sleep of the call under way
    last_call |-> NoCall,
    lead_id |-> 0,              \* 0 stands for store_lead's None (ids start at 1)
    result |-> None ]

\* Python truthiness of an Optional[str]
Truthy(v) == v # None /\ v # ""

(***************************************************************************)
(* database_handler.DatabaseHandler on a TinyDB table (a sequence of       *)
(* documents, each with the doc_id TinyDB gave it)                         *)
(***************************************************************************)
\* Table.insert: the next document id
NextDocId(table) ==
    IF table = <<>> THEN 1 ELSE Max({table[i].doc_id : i \in 1..Len(table)}) + 1

\* DatabaseHandler.add_document
add_document(table, data) == Append(table, [doc_id |-> NextDocId(table), data |-> data])

\* DatabaseHandler.query_table(table, "session_id", value): positions of the matches
query_session(table, session_id) ==
    {i \in 1..Len(table) : table[i].data.session_id = session_id}

\* DatabaseHandler.update_document: TRUE iff a document has the id
update_ok(table, doc_id) == \E i \in 1..Len(table) : table[i].doc_id = doc_id

\* DatabaseHandler.update_document: the table after table.update(data, doc_ids=[doc_id])
update_messages(table, doc_id, messages) ==
    [i \in 1..Len(table) |->
        IF table[i].doc_id = doc_id
        THEN [table[i] EXCEPT !.data.messages = messages]
        ELSE table[i]]

\* a load that leaves out the system messages of the stored history
get_history_without_system(table, session_id) ==
    IF query_session(table, session_id) # {}
    THEN SelectSeq(table[Min(query_session(table, session_id))].data.messages,
                   LAMBDA msg : msg.role # "system")
    ELSE <<>>

\* chat_handler.get_conversation_history
get_conversation_history(table, session_id) ==
    LET conversation_data == query_session(table, session_id)
    IN  IF conversation_data # {}
        THEN table[Min(conversation_data)].data.messages
        ELSE <<>>

\* a save that keeps only the last exchange of the history
save_last_exchange(table, user_id, session_id, messages) ==
    IF query_session(table, session_id) # {}
    THEN update_messages(table, Min(query_session(table, session_id)),
                         SubSeq(messages, Len(messages) - 1, Len(messages)))
    ELSE add_document(table, [user_id |-> user_id, session_id |-> session_id,
                              messages |-> messages])

\* a save that stores the history without its last message
save_without_reply(table, user_id, session_id, messages) ==
    IF query_session(table, session_id) # {}
    THEN update_messages(table, Min(query_session(table, session_id)),
                         SubSeq(messages, 1, Len(messages) - 1))
    ELSE add_document(table, [user_id |-> user_id, session_id |-> session_id,
                              messages |-> SubSeq(messages, 1, Len(messages) - 1)])

\* a save that leaves the document alone when what is stored is no longer the
\* beginning of the history to be saved
save_if_unchanged(table, user_id, session_id, messages) ==
    IF query_session(table, session_id) = {}
    THEN add_document(table, [user_id |-> user_id, session_id |-> session_id,
                              messages |-> messages])
    ELSE IF LET stored == table[Min(query_session(table, session_id))].data.messages
            IN  Len(stored) <= Len(messages) /\ SubSeq(messages, 1, Len(stored)) = stored
         THEN update_messages(table, Min(query_session(table, session_id)), messages)
         ELSE table

\* chat_handler.save_conversation_history: the table after the save
save_conversation_history(table, user_id, session_id, messages) ==
    LET conversation_data == query_session(table, session_id)
        \* "document IDs start at 1": the position in get_table_data + 1
        conversation_id == Min(conversation_data)
    IN  IF conversation_data # {}
        THEN IF update_ok(table, conversation_id)
             THEN update_messages(table, conversation_id, messages)
             ELSE table
        ELSE add_document(table, [user_id |-> user_id, session_id |-> session_id,
                                  messages |-> messages])

\* pipeline_config.store_conversation: the table after the insert
store_conversation(table, conversation_history, session_id, user_id) ==
    add_document(table, [user_id |-> user_id, session_id |-> session_id,
                         messages |-> conversation_history])

(***************************************************************************)
(* database_handler.DatabaseHandler on its own: the constructor and the    *)
(* document methods, on a "test" table as the unit tests use them.  A      *)
(* document is a function from field names to values.                      *)
(***************************************************************************)
\* how many documents are inserted into the "test" table
MaxDocs == 2

\* how many DatabaseHandler objects are constructed on the database
MaxHandlers == 2

\* {}: a document without fields
EMPTY_DOCUMENT == [field \in {} |-> ""]

\* the documents a caller adds
ADD_DATA == {[name |-> "Original Document", value |-> "789"], EMPTY_DOCUMENT}

\* the fields a caller updates
UPDATE_DATA == {[value |-> "999", updated |-> "True"], EMPTY_DOCUMENT}

\* the doc_id arguments a caller passes: Union[str, int]
IdArgs == {[type |-> "int", int |-> n] : n \in 1..(MaxDocs + 1)}
          \cup {[type |-> "str", str |-> text] : text \in {"1", "2", "x"}}

\* str.isdigit
isdigit(text) == text # "" /\ \A i \in 1..Len(text) : HasChar(DIGITS, CharAt(text, i))

RECURSIVE ParseInt(_)
\* int(text) for a string of digits
ParseInt(text) ==
    IF text = "" THEN 0
    ELSE 10 * ParseInt(SubSeq(text, 1, Len(text) - 1))
         + (CHOOSE d \in 0..9 : CharAt(DIGITS, d + 1) = CharAt(text, Len(text)))

\* "int(doc_id) if isinstance(doc_id, str) and doc_id.isdigit() else doc_id":
\* the key the table is asked for (0 for a string that no document id equals)
AsDocId(doc_id) ==
    IF doc_id.type = "int" THEN doc_id.int
    ELSE IF isdigit(doc_id.str) THEN ParseInt(doc_id.str) ELSE 0

\* table.get(doc_id=...): the document in a one-element sequence, or <<>> for None
table_get(table, key) ==
    [i \in 1..Cardinality({j \in 1..Len(table) : table[j].doc_id = key}) |->
        table[CHOOSE j \in 1..Len(table) : table[j].doc_id = key].data]

\* "if not doc": None and the empty document are both falsy
not_doc(got) == got = <<>> \/ DOMAIN got[1] = {}

\* dict.update: the fields of `data` replace or extend those of `document`
merged(document, data) ==
    [field \in DOMAIN document \cup DOMAIN data |->
        IF field \in DOMAIN data THEN data[field] ELSE document[field]]

\* an update that inserts the document when there is none
update_or_insert(table, doc_id, data) ==
    IF \E i \in 1..Len(table) : table[i].doc_id = AsDocId(doc_id)
    THEN [i \in 1..Len(table) |->
            IF table[i].doc_id = AsDocId(doc_id)
            THEN [table[i] EXCEPT !.data = merged(table[i].data, data)]
            ELSE table[i]]
    ELSE Append(table, [doc_id |-> AsDocId(doc_id), data |-> data])

\* DatabaseHandler.update_document: the table after the call
update_document(table, doc_id, data) ==
    IF not_doc(table_get(table, AsDocId(doc_id))) THEN table
    ELSE [i \in 1..Len(table) |->
            IF table[i].doc_id = AsDocId(doc_id)
            THEN [table[i] EXCEPT !.data = merged(table[i].data, data)]
            ELSE table[i]]

\* DatabaseHandler.update_document and delete_document: the value returned
found_document(table, doc_id) == ~not_doc(table_get(table, AsDocId(doc_id)))

\* a delete that removes the named document and those added after it
delete_from(table, doc_id) ==
    IF not_doc(table_get(table, AsDocId(doc_id))) THEN table
    ELSE SelectSeq(table, LAMBDA document : document.doc_id < AsDocId(doc_id))

\* DatabaseHandler.delete_document: the table after the call
delete_document(table, doc_id) ==
    IF not_doc(table_get(table, AsDocId(doc_id))) THEN table
    ELSE SelectSeq(table, LAMBDA document : document.doc_id # AsDocId(doc_id))

\* DatabaseHandler.get_document(table_name, doc_id: str): the document in a
\* one-element sequence, or <<>> for None; an int has no isdigit, and the
\* AttributeError is caught
get_document(table, doc_id) ==
    IF doc_id.type = "str" THEN table_get(table, AsDocId(doc_id)) ELSE <<>>

\* an int passed as doc_id
IntId(n) == [type |-> "int", int |-> n]

\* a save that stamps created_at as well when it updates
save_restamping(table, user_id, session_id, messages, timestamp) ==
    IF query_session(table, session_id) # {}
    THEN update_document(table, IntId(Min(query_session(table, session_id))),
                         [messages |-> messages, created_at |-> timestamp,
                          updated_at |-> timestamp])
    ELSE add_document(table, [user_id |-> user_id, session_id |-> session_id,
                              messages |-> messages, created_at |-> timestamp,
                              updated_at |-> timestamp])

\* chat_handler.save_conversation_history with the timestamps it writes (the
\* model of a turn leaves them out): the table after the save, `timestamp`
\* being datetime.now(pytz.UTC).isoformat()
save_conversation_history_at(table, user_id, session_id, messages, timestamp) ==
    LET conversation_data == query_session(table, session_id)
        \* "conversation_id = idx + 1" for the first conversation of the session
        \* in get_table_data
        conversation_id == Min(conversation_data)
    IN  IF conversation_data # {}
        THEN update_document(table, IntId(conversation_id),
                             [messages |-> messages, updated_at |-> timestamp])
        ELSE add_document(table, [user_id |-> user_id, session_id |-> session_id,
                                  messages |-> messages, created_at |-> timestamp,
                                  updated_at |-> timestamp])

\* chat_handler.save_conversation_history: the value returned (what
\* update_document returns, or "document_id > 0")
save_returns(table, session_id) ==
    IF query_session(table, session_id) # {}
    THEN found_document(table, IntId(Min(query_session(table, session_id))))
    ELSE TRUE

\* Table._get_next_id: the cached counter, or the highest id + 1
next_id_of(table, next_id) == IF next_id # 0 THEN next_id ELSE NextDocId(table)

\* the project types of the default guidance rows, in insertion order
DEFAULT_PROJECT_TYPES == <<"e-commerce", "corporate", "blog">>

RECURSIVE insert_defaults(_, _)
\* "for data in default_..._data: table.insert(data)", from the k-th row on
insert_defaults(table, k) ==
    IF k > Len(DEFAULT_PROJECT_TYPES) THEN table
    ELSE insert_defaults(add_document(table, [project_type |-> DEFAULT_PROJECT_TYPES[k]]),
                         k + 1)

\* a seeding that does not look at the table
seed_always(table) == insert_defaults(table, 1)

\* _initialize_default_data for one guidance table: "if not table.all()"
seed_if_empty(table) == IF table = <<>> THEN insert_defaults(table, 1) ELSE table

\* a database file that no DatabaseHandler has opened yet
FreshDb == [test |-> <<>>, next_id |-> 0, budget_guidance |-> <<>>,
            timeline_guidance |-> <<>>, handlers |-> 0]

\* DatabaseHandler.__init__: the database after the constructor; the new
\* handler's tables have no cached next id
constructed(database, initialize_default_data) ==
    [database EXCEPT
        !.budget_guidance = IF initialize_default_data THEN seed_if_empty(@) ELSE @,
        !.timeline_guidance = IF initialize_default_data THEN seed_if_empty(@) ELSE @,
        !.next_id = 0,
        !.handlers = @ + 1]

\* no call has been made on its own
NoProbe == [op |-> "none"]

(***************************************************************************)
(* pipeline_config.extract_lead_information, one entity kind at a time     *)
(***************************************************************************)
RECURSIVE Split(_, _)
\* s.split(sep) for a one-character separator
Split(s, sep) ==
    LET at == {i \in 1..Len(s) : CharAt(s, i) = sep}
    IN  IF at = {} THEN <<s>>
        ELSE <<SubSeq(s, 1, Min(at) - 1)>> \o Split(SubSeq(s, Min(at) + 1, Len(s)), sep)

\* a split that keeps the blanks around the segments
SplitWithoutStrip(features_text) == Split(features_text, ",")

\* [f.strip() for f in features_text.split(",")]
SplitFeatures(features_text) ==
    LET parts == Split(features_text, ",")
    IN  [i \in 1..Len(parts) |-> Strip(parts[i])]

\* a consent test that compares without lower-casing
IsConsentExact(consent_text) ==
    Truthy(consent_text) /\ consent_text \in {"yes", "true", "confirmed"}

\* consent_text and consent_text.lower() in ["yes", "true", "confirmed"]
IsConsent(consent_text) ==
    Truthy(consent_text) /\ Lower(consent_text) \in {"yes", "true", "confirmed"}

\* the assignment extract_lead_information makes with the text found for a kind
SetField(lead_data, entity_type, text) ==
    CASE entity_type = "client name" -> [lead_data EXCEPT !.client_name = text]
      [] entity_type = "business name" -> [lead_data EXCEPT !.client_business = text]
      [] entity_type = "project description" ->
            [lead_data EXCEPT !.project_description = text]
      [] entity_type = "project features" ->
            IF Truthy(text) THEN [lead_data EXCEPT !.features = SplitFeatures(text)]
            ELSE lead_data
      [] entity_type = "project timeline" -> [lead_data EXCEPT !.timeline = text]
      [] entity_type = "budget range" -> [lead_data EXCEPT !.budget_range = text]
      [] entity_type = "follow-up consent (yes/no)" ->
            [lead_data EXCEPT !.confirmed_follow_up = IsConsent(text)]

\* an extraction that leaves the contact field alone
NoEmail(lead_data, conversation_text) == lead_data

\* the e-mail extraction, which follows the business name in the code
SetEmail(lead_data, conversation_text) ==
    IF Analysis[conversation_text].email # None
    THEN [lead_data EXCEPT !.contact_information = Analysis[conversation_text].email]
    ELSE lead_data

\* an extraction that asks the regex layer first
RegexFirst(conversation_text, ent, primary) ==
    IF Analysis[conversation_text].regex[ent] # None
    THEN Analysis[conversation_text].regex[ent] ELSE primary

\* an extraction without the regex layer
PrimaryOnly(conversation_text, ent, primary) == primary

\* the two-layer fallback: the primary value, or the regex value if it is None
WithFallback(conversation_text, ent, primary) ==
    IF primary = None THEN Analysis[conversation_text].regex[ent] ELSE primary

\* lead_data after extract_entity_with_llm returned `primary` for the ent-th kind
AfterEntity(lead_data, conversation_text, ent, primary) ==
    LET set == SetField(lead_data, ENTITY_KINDS[ent],
                        WithFallback(conversation_text, ent, primary))
    IN  IF ENTITY_KINDS[ent] = "business name" THEN SetEmail(set, conversation_text) ELSE set

\* the gate of LangFlowIntegration.process_message
Eligible(lead_data) ==
    /\ lead_data.confirmed_follow_up
    /\ Truthy(lead_data.client_name)
    /\ Truthy(lead_data.contact_information)

\* a store_lead that skips a lead the table already holds
store_lead_once(lead_data) ==
    /\ Truthy(lead_data.client_name)
    /\ Truthy(lead_data.contact_information)
    /\ lead_data.confirmed_follow_up
    /\ \A i \in 1..Len(leads) : leads[i].data # lead_data

\* pipeline_config.store_lead: does it reach add_document
store_lead_accepts(lead_data) ==
    /\ Truthy(lead_data.client_name)
    /\ Truthy(lead_data.contact_information)
    /\ lead_data.confirmed_follow_up

\* a pipeline that writes every lead with a name and a contact address
LeadStoredWithoutConsent(lead_data) ==
    Truthy(lead_data.client_name) /\ Truthy(lead_data.contact_information)

\* process_message: is the lead written (the gate, then store_lead's own check)
LeadStored(lead_data) == Eligible(lead_data) /\ store_lead_accepts(lead_data)

\* LLMHandler.generate_response: the messages it sends
generate_response_messages(system_prompt, user_message, conversation_history) ==
    <<Msg("system", system_prompt)>>
    \o SelectSeq(conversation_history, LAMBDA msg : msg.role # "system")
    \o <<Msg("user", user_message)>>

\* the system prompt process_message builds in each branch (the guidance text
\* it embeds is not modelled)
SystemPromptOf(branch) ==
    CASE branch = "budget" -> "You are a helpful pre-sales assistant. The user has asked about budget information."
      [] branch = "timeline" -> "You are a helpful pre-sales assistant. The user has asked about timeline information."
      [] OTHER -> "You are a friendly and helpful pre-sales chatbot for a software development company."

\* "conversation_history or [] + [...]": Python parses it as
\* conversation_history or ([] + [...])
OrElse(conversation_history, extra) ==
    IF conversation_history # <<>> THEN conversation_history ELSE extra

(***************************************************************************)
(* chat_handler.process_chat_message, step by step.  A step ends at each   *)
(* call of the completion capability and at each table write.              *)
(***************************************************************************)
\* the session ids a client can send: none, one of its own making, or one
\* that an earlier response carried
SessionArgs == {None, CLIENT_SESSION} \cup {Uuid(n) : n \in 1..uuids}

\* a process_chat_message that draws an identifier whatever it is given
SessionIdAlwaysNew(session_id_arg, n) == generate_session_id(n)

\* "if not session_id: session_id = generate_session_id()", for the n-th
\* identifier drawn
SessionIdFor(session_id_arg, n) ==
    IF Truthy(session_id_arg) THEN session_id_arg ELSE generate_session_id(n)

\* who can call: the users are interchangeable, so the first caller is "u1"
Callers == IF started = 0 THEN {"u1"} ELSE Users

\* process_chat_message up to the call of process_message: the session id is
\* generated if absent, the history is loaded, LangFlowIntegration is imported
StartTurn(w) ==
    /\ turn[w].pc \in {"idle", "done"}
    /\ started < MaxTurns
    /\ started' = started + 1
    /\ \E user_id \in Callers, message \in Messages, session_id_arg \in SessionArgs :
        LET session_id == SessionIdFor(session_id_arg, uuids + 1)
            history    == get_conversation_history(conversations, session_id)
        IN  /\ uuids' = IF Truthy(session_id_arg) THEN uuids ELSE uuids + 1
            /\ turn' = [turn EXCEPT ![w] = [IdleTurn EXCEPT
                    !.pc = IF langflow THEN "process_message" ELSE "fallback",
                    !.user_id = user_id,
                    !.message = message,
                    !.session_id_arg = session_id_arg,
                    !.session_id = session_id,
                    !.loaded = history,
                    !.conversation_history = history]]
    /\ UNCHANGED <<conversations, leads, cache, first_returned, langflow,
                     faults, db, probe, live>>

\* LangFlowIntegration.process_message up to the response: project type,
\* branch, guidance lookup, generate_response
ProcessMessage(w) ==
    LET t == turn[w]
        history == t.conversation_history
        project_type == Analysis[ConversationText(OrElse(history, <<Msg("user", t.message)>>))].project_type
        branch == Branch[t.message]
        sent == generate_response_messages(SystemPromptOf(branch), t.message, history)
    IN  /\ t.pc = "process_message"
        /\ \/ \* get_budget_guidance / get_timeline_guidance raises: process_message
              \* catches and returns its own apology
              /\ branch \in {"budget", "timeline"}
              /\ turn' = [turn EXCEPT ![w] = [t EXCEPT
                    !.pc = "save",
                    !.branch = branch,
                    !.project_type = project_type,
                    !.response_text = PROCESSING_APOLOGY]]
           \/ \* the completion call returns a text
              \E text \in Completions :
                turn' = [turn EXCEPT ![w] = [t EXCEPT
                    !.pc = "extract",
                    !.branch = branch,
                    !.project_type = project_type,
                    !.llm_messages = sent,
                    !.response_text = text,
                    !.extraction_text = ConversationText(OrElse(history,
                        <<Msg("user", t.message), Msg("assistant", text)>>)),
                    !.ent = 1]]
           \/ \* the completion call raises: generate_response returns the apology
              turn' = [turn EXCEPT ![w] = [t EXCEPT
                    !.pc = "extract",
                    !.branch = branch,
                    !.project_type = project_type,
                    !.llm_messages = sent,
                    !.completion_failed = TRUE,
                    !.response_text = APOLOGY,
                    !.extraction_text = ConversationText(OrElse(history,
                        <<Msg("user", t.message), Msg("assistant", APOLOGY)>>)),
                    !.ent = 1]]
        /\ UNCHANGED <<conversations, leads, cache, first_returned, uuids, started, langflow,
                     faults, db, probe, live>>

cache_key(conversation_text, entity_type) == <<Hash(conversation_text), entity_type>>

\* the locals after extract_entity_with_llm returned `value` for the kind at
\* hand, after `calls` completion calls of which `failed` raised
Returned(t, value, calls, failed, cached, answer) ==
    LET entity_type == ENTITY_KINDS[t.ent]
        key  == cache_key(t.extraction_text, entity_type)
        last == t.ent = Len(ENTITY_KINDS)
    IN  [t EXCEPT
            !.pc = IF last THEN "store_lead" ELSE "extract",
            !.ent = IF last THEN 0 ELSE t.ent + 1,
            !.retry_count = 0,
            !.calls = 0,
            !.slept = <<>>,
            !.lead_data = AfterEntity(t.lead_data, t.extraction_text, t.ent, value),
            !.last_call = [entity_type |-> entity_type, value |-> value, calls |-> calls,
                           failed |-> failed, cached |-> cached, answer |-> answer,
                           slept |-> t.slept,
                           repeated |-> key \in DOMAIN first_returned,
                           earlier |-> IF key \in DOMAIN first_returned
                                       THEN first_returned[key] ELSE None]]

\* the history of first results, after a call with the key returned `value`
Remember(key, value) ==
    IF key \in DOMAIN first_returned THEN first_returned
    ELSE [k \in DOMAIN first_returned \cup {key} |->
            IF k = key THEN value ELSE first_returned[k]]

\* a backoff that starts at one second
backoff_from_one(retry_count) == 2 ^ (retry_count - 1)

\* "time.sleep(2 ** retry_count)": the seconds slept
backoff_seconds(retry_count) == 2 ^ retry_count

\* a retry loop that makes one pass more
loop_one_more(retry_count) == retry_count <= max_retries + 1

\* "while retry_count <= max_retries"
loop_continues(retry_count) == retry_count <= max_retries

\* an extractor that never finds its key in the cache
cache_never_hit(key) == FALSE

\* "if cache_key in extract_entity_with_llm.cache"
in_cache(key) == key \in DOMAIN cache

\* a cache that keeps every result, None included
cache_store_any(key, extracted_text) ==
    [k \in DOMAIN cache \cup {key} |-> IF k = key THEN extracted_text ELSE cache[k]]

\* the cache after an answer: "return None" for an absence answer comes before
\* "extract_entity_with_llm.cache[cache_key] = extracted_text"
cache_store(key, extracted_text) ==
    IF extracted_text = None THEN cache
    ELSE [k \in DOMAIN cache \cup {key} |-> IF k = key THEN extracted_text ELSE cache[k]]

\* extract_entity_with_llm is called for the next kind: a cached value is
\* returned at once, otherwise the retry loop is entered
ExtractCall(w) ==
    LET t == turn[w]
        key == cache_key(t.extraction_text, ENTITY_KINDS[t.ent])
    IN  /\ t.pc = "extract"
        /\ IF in_cache(key)
           THEN /\ turn' = [turn EXCEPT ![w] = Returned(t, cache[key], 0, 0, TRUE, None)]
                /\ first_returned' = Remember(key, cache[key])
           ELSE /\ turn' = [turn EXCEPT ![w] = [t EXCEPT
                        !.pc = "attempt", !.retry_count = 0, !.calls = 0,
                        !.last_call = NoCall]]
                /\ first_returned' = first_returned
        /\ UNCHANGED <<conversations, leads, cache, uuids, started, langflow,
                     faults, db, probe, live>>

\* one pass of the retry loop: the completion call raises or answers
ExtractAttempt(w) ==
    LET t == turn[w]
        entity_type == ENTITY_KINDS[t.ent]
        key == cache_key(t.extraction_text, entity_type)
    IN  /\ t.pc = "attempt"
        /\ loop_continues(t.retry_count)
        /\ \/ \* completion raises: retry_count += 1, then "if retry_count <=
              \* max_retries: time.sleep(...)" and the next pass, or the loop ends
              /\ IF loop_continues(t.retry_count + 1)
                 THEN /\ turn' = [turn EXCEPT ![w] = [t EXCEPT
                            !.retry_count = t.retry_count + 1, !.calls = t.calls + 1,
                            !.slept = Append(t.slept, backoff_seconds(t.retry_count + 1))]]
                      /\ first_returned' = first_returned
                 ELSE /\ turn' = [turn EXCEPT ![w] =
                            Returned(t, None, t.calls + 1, t.retry_count + 1, FALSE, None)]
                      /\ first_returned' = Remember(key, None)
              /\ cache' = cache
           \/ \* completion answers
              \E answer \in Analysis[t.extraction_text].answers[t.ent] :
                LET extracted_text == Extracted[answer]
                IN  /\ turn' = [turn EXCEPT ![w] =
                            Returned(t, extracted_text, t.calls + 1, t.retry_count, FALSE,
                                     answer)]
                    /\ first_returned' = Remember(key, extracted_text)
                    /\ cache' = cache_store(key, extracted_text)
        /\ UNCHANGED <<conversations, leads, uuids, started, langflow,
                     faults, db, probe, live>>

\* how a table insert can end: it succeeds, or it is rejected and raises
InsertOutcomes == IF faults THEN {"ok", "rejected"} ELSE {"ok"}

\* how "DatabaseHandler(db_path)" followed by an insert can end: the constructor
\* can raise too, when the database cannot be opened
StoreOutcomes == IF faults THEN {"ok", "rejected", "unavailable"} ELSE {"ok"}

\* how table.update can end: a failure is caught by update_document
UpdateOutcomes == IF faults THEN {"ok", "rejected"} ELSE {"ok"}

\* process_message after extract_lead_information: the second project type
\* detection, the gate, store_lead.  An insert that raises is caught by
\* store_lead, which returns None; a constructor that raises is caught by
\* process_message, which returns its apology
StoreLead(w) ==
    LET t == turn[w]
        exchanged == <<Msg("user", t.message), Msg("assistant", t.response_text)>>
        project_type == Analysis[ConversationText(OrElse(t.conversation_history, exchanged))].project_type
        stores == LeadStored(t.lead_data)
    IN  /\ t.pc = "store_lead"
        /\ \E outcome \in IF stores THEN StoreOutcomes ELSE {"ok"} :
            /\ leads' = IF stores /\ outcome = "ok"
                         THEN add_document(leads, t.lead_data) ELSE leads
            /\ turn' = [turn EXCEPT ![w] =
                    IF outcome = "unavailable"
                    THEN [t EXCEPT
                            !.pc = "save",
                            !.last_call = NoCall,
                            !.response_text = PROCESSING_APOLOGY]
                    ELSE [t EXCEPT
                            !.pc = "store_conversation",
                            !.project_type = project_type,
                            !.last_call = NoCall,
                            !.lead_id = IF stores /\ outcome = "ok"
                                        THEN NextDocId(leads) ELSE 0]]
        /\ UNCHANGED <<conversations, cache, first_returned, uuids, started, langflow,
                     faults, db, probe, live>>

\* process_message: store_conversation, then it returns the response.  An
\* insert that raises is caught by store_conversation; a constructor that
\* raises is caught by process_message, which returns its apology
StoreConversation(w) ==
    LET t == turn[w]
        exchanged == <<Msg("user", t.message), Msg("assistant", t.response_text)>>
    IN  /\ t.pc = "store_conversation"
        /\ \E outcome \in StoreOutcomes :
            /\ conversations' =
                    IF outcome = "ok"
                    THEN store_conversation(conversations,
                            OrElse(t.conversation_history, exchanged), t.session_id, t.user_id)
                    ELSE conversations
            /\ turn' = [turn EXCEPT ![w] =
                    IF outcome = "unavailable"
                    THEN [t EXCEPT !.pc = "save", !.response_text = PROCESSING_APOLOGY]
                    ELSE [t EXCEPT !.pc = "save"]]
        /\ UNCHANGED <<leads, cache, first_returned, uuids, started, langflow,
                     faults, db, probe, live>>

\* save_conversation_history takes the update branch: the session has a document
updates_existing(table, session_id) == query_session(table, session_id) # {}

\* how save_conversation_history can end: update_document returns False when
\* the update fails, add_document raises when the insert fails
SaveOutcomes(table, session_id) ==
    IF updates_existing(table, session_id) THEN UpdateOutcomes ELSE InsertOutcomes

\* process_chat_message after process_message returned: both messages are
\* appended, the history is saved, the tuple is returned.  An insert that
\* raises inside save_conversation_history is caught by "except Exception" of
\* process_chat_message, which goes on with the direct completion call on the
\* history that already holds both messages
SaveHistory(w) ==
    LET t == turn[w]
        history == t.conversation_history
                   \o <<Msg("user", t.message), Msg("assistant", t.response_text)>>
    IN  /\ t.pc = "save"
        /\ \E outcome \in SaveOutcomes(conversations, t.session_id) :
            /\ conversations' =
                    IF outcome = "ok"
                    THEN save_conversation_history(conversations, t.user_id, t.session_id,
                                                   history)
                    ELSE conversations
            /\ turn' = [turn EXCEPT ![w] =
                    IF outcome = "rejected"
                       /\ ~updates_existing(conversations, t.session_id)
                    THEN [t EXCEPT
                            !.pc = "fallback",
                            !.conversation_history = history]
                    ELSE [t EXCEPT
                            !.pc = "done",
                            !.conversation_history = history,
                            !.result = <<t.response_text, t.session_id>>]]
        /\ UNCHANGED <<leads, cache, first_returned, uuids, started, langflow,
                     faults, db, probe, live>>

\* the except branch of process_chat_message (the import of the LangFlow
\* integration raised): system prompt for a new conversation, the user
\* message, the direct completion call
Fallback(w) ==
    LET t == turn[w]
        with_system == IF t.conversation_history = <<>>
                       THEN <<Msg("system", DEFAULT_SYSTEM_PROMPT)>>
                       ELSE t.conversation_history
        history == Append(with_system, Msg("user", t.message))
    IN  /\ t.pc = "fallback"
        /\ \/ \E text \in Completions :
                turn' = [turn EXCEPT ![w] = [t EXCEPT
                    !.pc = "fallback_save",
                    !.llm_messages = history,
                    !.response_text = text,
                    !.conversation_history = Append(history, Msg("assistant", text))]]
           \/ \* the completion call raises: the apology is returned, nothing is saved
              turn' = [turn EXCEPT ![w] = [t EXCEPT
                    !.pc = "done",
                    !.llm_messages = history,
                    !.completion_failed = TRUE,
                    !.conversation_history = history,
                    !.result = <<APOLOGY, t.session_id>>]]
        /\ UNCHANGED <<conversations, leads, cache, first_returned, uuids, started, langflow,
                     faults, db, probe, live>>

\* the fallback saves the history and returns the tuple.  An insert that
\* raises inside save_conversation_history is caught by the inner "except
\* Exception", which returns the apology
FallbackSave(w) ==
    LET t == turn[w]
    IN  /\ t.pc = "fallback_save"
        /\ \E outcome \in SaveOutcomes(conversations, t.session_id) :
            /\ conversations' =
                    IF outcome = "ok"
                    THEN save_conversation_history(conversations, t.user_id,
                                t.session_id, t.conversation_history)
                    ELSE conversations
            /\ turn' = [turn EXCEPT ![w] = [t EXCEPT
                    !.pc = "done",
                    !.result =
                        IF outcome = "rejected"
                           /\ ~updates_existing(conversations, t.session_id)
                        THEN <<APOLOGY, t.session_id>>
                        ELSE <<t.response_text, t.session_id>>]]
        /\ UNCHANGED <<leads, cache, first_returned, uuids, started, langflow,
                     faults, db, probe, live>>

(***************************************************************************)
(* Specification: one request handler, turns one after the other           *)
(***************************************************************************)
\* the request handlers that run process_chat_message: the endpoint calls it
\* synchronously inside the event loop, so one call runs at a time
Handlers == {1}

Init ==
    /\ conversations = <<>>
    /\ leads = <<>>
    /\ cache = <<>>
    /\ first_returned = <<>>
    /\ uuids = 0
    /\ started = 0
    /\ langflow \in BOOLEAN
    /\ turn = [w \in Handlers |-> IdleTurn]
    /\ faults = FALSE
    /\ db = constructed(FreshDb, TRUE)
    /\ probe = NoProbe
    /\ live = {}

Next ==
    \E w \in Handlers :
        \/ StartTurn(w)
        \/ ProcessMessage(w)
        \/ ExtractCall(w)
        \/ ExtractAttempt(w)
        \/ StoreLead(w)
        \/ StoreConversation(w)
        \/ SaveHistory(w)
        \/ Fallback(w)
        \/ FallbackSave(w)

Spec == Init /\ [][Next]_vars

(***************************************************************************)
(* Specification: the same handler on a database whose writes can fail     *)
(***************************************************************************)
FaultInit ==
    /\ conversations = <<>>
    /\ leads = <<>>
    /\ cache = <<>>
    /\ first_returned = <<>>
    /\ uuids = 0
    /\ started = 0
    /\ langflow \in BOOLEAN
    /\ turn = [w \in Handlers |-> IdleTurn]
    /\ faults = TRUE
    /\ db = constructed(FreshDb, TRUE)
    /\ probe = NoProbe
    /\ live = {}

FaultSpec == FaultInit /\ [][Next]_vars

(***************************************************************************)
(* Specification: two server processes on one database file, each running *)
(* process_chat_message; nothing orders their reads and writes of the      *)
(* tables.  The steps of extract_lead_information touch no table, so a      *)
(* process that has entered it is followed to its end before the other      *)
(* process steps: every order of the table reads and writes is kept.  The   *)
(* processes are given one extraction cache: a cached value is a value the  *)
(* completion capability can answer again, so separate caches add no table  *)
(* contents.                                                               *)
(***************************************************************************)
Workers == {1, 2}

\* no other process is inside extract_lead_information
Unhindered(w) ==
    \A other \in Workers \ {w} : turn[other].pc \notin {"extract", "attempt"}

ConcurrentInit ==
    /\ conversations = <<>>
    /\ leads = <<>>
    /\ cache = <<>>
    /\ first_returned = <<>>
    /\ uuids = 0
    /\ started = 0
    /\ langflow \in BOOLEAN
    /\ turn = [w \in Workers |-> IdleTurn]
    /\ faults = FALSE
    /\ db = constructed(FreshDb, TRUE)
    /\ probe = NoProbe
    /\ live = {}

ConcurrentNext ==
    \E w \in Workers :
        \/ Unhindered(w) /\ StartTurn(w)
        \/ Unhindered(w) /\ ProcessMessage(w)
        \/ ExtractCall(w)
        \/ ExtractAttempt(w)
        \/ Unhindered(w) /\ StoreLead(w)
        \/ Unhindered(w) /\ StoreConversation(w)
        \/ Unhindered(w) /\ SaveHistory(w)
        \/ Unhindered(w) /\ Fallback(w)
        \/ Unhindered(w) /\ FallbackSave(w)

ConcurrentSpec == ConcurrentInit /\ [][ConcurrentNext]_vars

(***************************************************************************)
(* Specification: two threads of one process that call                      *)
(* extract_entity_with_llm on their own, again and again, for the follow-up *)
(* consent of one of two texts; they share the function's cache, and        *)
(* nothing orders the cache check of one and the cache write of the other   *)
(***************************************************************************)
\* the texts the threads ask about
CACHE_TEXTS == {M_FULL, M_BUDGET}

\* a thread calls extract_entity_with_llm(conversation_text,
\* "follow-up consent (yes/no)"): it is at the cache check
CallExtractEntity(w) ==
    /\ turn[w].pc \in {"idle", "store_lead"}
    /\ \E conversation_text \in CACHE_TEXTS :
        turn' = [turn EXCEPT ![w] = [IdleTurn EXCEPT
                    !.pc = "extract",
                    !.extraction_text = conversation_text,
                    !.ent = Len(ENTITY_KINDS)]]
    /\ UNCHANGED <<conversations, leads, cache, first_returned, uuids, started, langflow,
                   faults, db, probe, live>>

CacheInit ==
    /\ conversations = <<>>
    /\ leads = <<>>
    /\ cache = <<>>
    /\ first_returned = <<>>
    /\ uuids = 0
    /\ started = 0
    /\ langflow = TRUE
    /\ turn = [w \in Workers |-> IdleTurn]
    /\ faults = FALSE
    /\ db = constructed(FreshDb, TRUE)
    /\ probe = NoProbe
    /\ live = {}

CacheNext ==
    \E w \in Workers :
        \/ CallExtractEntity(w)
        \/ ExtractCall(w)
        \/ ExtractAttempt(w)

CacheSpec == CacheInit /\ [][CacheNext]_vars

(***************************************************************************)
(* Specification: the methods of one DatabaseHandler, called on their own  *)
(* on a new database file                                                  *)
(***************************************************************************)
\* the state of the chat pipeline, which these calls leave alone
pipeline_vars == <<conversations, leads, cache, first_returned, uuids, started, langflow,
                   turn, faults>>

\* DatabaseHandler(db_path, initialize_default_data)
Construct ==
    /\ db.handlers < MaxHandlers
    /\ \E initialize_default_data \in BOOLEAN :
        /\ db' = constructed(db, initialize_default_data)
        /\ probe' = [op |-> "construct", initialize_default_data |-> initialize_default_data,
                      db_before |-> db]
    /\ UNCHANGED <<pipeline_vars, live>>

\* add_document("test", data)
AddDocument ==
    /\ db.handlers >= 1
    /\ next_id_of(db.test, db.next_id) <= MaxDocs
    /\ \E data \in ADD_DATA :
        /\ db' = [db EXCEPT
                    !.test = Append(@, [doc_id |-> next_id_of(db.test, db.next_id),
                                        data |-> data]),
                    !.next_id = next_id_of(db.test, db.next_id) + 1]
        /\ probe' = [op |-> "add_document", data |-> data, before |-> db.test,
                      returned_id |-> next_id_of(db.test, db.next_id)]
    /\ live' = live \cup {next_id_of(db.test, db.next_id)}
    /\ UNCHANGED pipeline_vars

\* update_document("test", doc_id, data)
UpdateDocument ==
    /\ db.handlers >= 1
    /\ \E doc_id \in IdArgs, data \in UPDATE_DATA :
        /\ db' = [db EXCEPT !.test = update_document(@, doc_id, data)]
        /\ probe' = [op |-> "update_document", doc_id |-> doc_id, data |-> data,
                      before |-> db.test, returned |-> found_document(db.test, doc_id)]
    /\ UNCHANGED <<pipeline_vars, live>>

\* delete_document("test", doc_id)
DeleteDocument ==
    /\ db.handlers >= 1
    /\ \E doc_id \in IdArgs :
        /\ db' = [db EXCEPT !.test = delete_document(@, doc_id)]
        /\ probe' = [op |-> "delete_document", doc_id |-> doc_id,
                      before |-> db.test, returned |-> found_document(db.test, doc_id)]
        /\ live' = IF found_document(db.test, doc_id) THEN live \ {AsDocId(doc_id)} ELSE live
    /\ UNCHANGED pipeline_vars

\* get_document("test", doc_id)
GetDocument ==
    /\ db.handlers >= 1
    /\ \E doc_id \in IdArgs :
        probe' = [op |-> "get_document", doc_id |-> doc_id, before |-> db.test,
                  got |-> get_document(db.test, doc_id)]
    /\ UNCHANGED <<db, conversations, leads, cache, first_returned, uuids, started,
                   langflow, turn, faults, live>>

DbInit ==
    /\ conversations = <<>>
    /\ leads = <<>>
    /\ cache = <<>>
    /\ first_returned = <<>>
    /\ uuids = 0
    /\ started = 0
    /\ langflow = TRUE
    /\ turn = [w \in Handlers |-> IdleTurn]
    /\ faults = FALSE
    /\ db = FreshDb
    /\ probe = NoProbe
    /\ live = {}

DbNext ==
    \/ Construct
    \/ AddDocument
    \/ UpdateDocument
    \/ DeleteDocument
    \/ GetDocument

DbSpec == DbInit /\ [][DbNext]_vars

(***************************************************************************)
(* Specification: detect_project_type called on its own                    *)
(***************************************************************************)
\* how many messages a conversation given to detect_project_type holds
MaxDetectMessages == 2

\* what the messages say
DETECT_CONTENTS ==
    {"I need a Blog", "an E-Commerce shop", "for my company", "a REST API", "Hello",
     "CORPORATE dashboard", "a mobile app", "posts and a cart", "Web Application",
     "cms for the store"}

\* the conversations detect_project_type is given
DetectHistories ==
    UNION {[1..n -> {Msg("user", content) : content \in DETECT_CONTENTS}] :
                n \in 1..MaxDetectMessages}

\* what detect_project_type returns for each of them
DetectReturns ==
    [conversation_history \in DetectHistories |-> detect_project_type(conversation_history)]
        @@ <<>>

\* detect_project_type(conversation_history)
DetectProjectType ==
    /\ \E conversation_history \in DetectHistories :
        probe' = [op |-> "detect_project_type",
                  conversation_history |-> conversation_history,
                  returned |-> DetectReturns[conversation_history]]
    /\ UNCHANGED <<db, conversations, leads, cache, first_returned, uuids, started,
                   langflow, turn, faults, live>>

DetectInit ==
    /\ conversations = <<>>
    /\ leads = <<>>
    /\ cache = <<>>
    /\ first_returned = <<>>
    /\ uuids = 0
    /\ started = 0
    /\ langflow = TRUE
    /\ turn = [w \in Handlers |-> IdleTurn]
    /\ faults = FALSE
    /\ db = constructed(FreshDb, TRUE)
    /\ probe = NoProbe
    /\ live = {}

DetectNext == DetectProjectType

DetectSpec == DetectInit /\ [][DetectNext]_vars

(***************************************************************************)
(* Specification: the steps of extract_lead_information for the features   *)
(* and the consent, extract_with_regex and the intent classification of    *)
(* process_message, each called on its own                                 *)
(***************************************************************************)
\* the conversation texts the extraction is given
UNIT_TEXTS ==
    {"We need features like login, cart , search. Thanks",
     "It must have a blog.",
     "Hello there",
     M_FULL,
     "Feel free to call me",
     "please do not contact me",
     "I am happy to discuss further",
     "yes you can email",
     "Contact me, please"}

\* what extract_entity_with_llm returns for the features: None, or a stripped text
FEATURE_RESULTS == {None, "", "login", "login, cart", "a ,b,, c", "x,"}

\* what extract_entity_with_llm returns for the consent
CONSENT_RESULTS ==
    {None, "", "yes", "Yes", "TRUE", "Confirmed", "no", "No", "yes please", "sure"}

\* the messages process_message classifies
INTENT_MESSAGES ==
    {"What is the budget and the timeline?", "How long will it take?",
     "HOW MUCH is it, and when?", "Hello", "Is it Expensive?", "What is the DEADLINE?",
     "sometimes", "I cannot afford delays in the schedule", M_FULL, M_BUDGET}

\* extract_lead_information for one kind on a new lead_data: the result of
\* extract_entity_with_llm, or of extract_with_regex if it is None, assigned
lead_field(conversation_text, entity_type, primary) ==
    SetField(EmptyLead, entity_type,
             IF primary = None THEN extract_with_regex(conversation_text, entity_type)
             ELSE primary)

\* the calls of lead_field: a text, a kind and what extract_entity_with_llm returned
FieldInputs ==
    {[conversation_text |-> text, entity_type |-> "project features", primary |-> primary] :
        text \in UNIT_TEXTS, primary \in FEATURE_RESULTS}
    \cup
    {[conversation_text |-> text, entity_type |-> "follow-up consent (yes/no)",
      primary |-> primary] : text \in UNIT_TEXTS, primary \in CONSENT_RESULTS}

\* lead_data after each of the calls
FieldReturns ==
    [input \in FieldInputs |->
        lead_field(input.conversation_text, input.entity_type, input.primary)] @@ <<>>

\* what extract_with_regex returns for the consent on each text
ConsentRegexReturns ==
    [text \in UNIT_TEXTS |-> extract_with_regex(text, "follow-up consent (yes/no)")] @@ <<>>

\* the guidance tables process_message reads in a branch
guidance_read(branch) ==
    CASE branch = "budget" -> {"budget_guidance"}
      [] branch = "timeline" -> {"timeline_guidance"}
      [] OTHER -> {}

\* the branch process_message takes for each message
IntentReturns == [message \in INTENT_MESSAGES |-> BranchOf(message)] @@ <<>>

\* extract_lead_information: the step for the features or for the consent
ExtractField ==
    /\ \E input \in FieldInputs :
        probe' = [op |-> "extract_lead_information",
                  conversation_text |-> input.conversation_text,
                  entity_type |-> input.entity_type,
                  primary |-> input.primary,
                  lead_data |-> FieldReturns[input]]
    /\ UNCHANGED <<db, conversations, leads, cache, first_returned, uuids, started,
                   langflow, turn, faults, live>>

\* extract_with_regex(conversation_text, "follow-up consent (yes/no)")
ExtractConsentWithRegex ==
    /\ \E text \in UNIT_TEXTS :
        probe' = [op |-> "extract_with_regex", conversation_text |-> text,
                  returned |-> ConsentRegexReturns[text]]
    /\ UNCHANGED <<db, conversations, leads, cache, first_returned, uuids, started,
                   langflow, turn, faults, live>>

\* process_message: the classification of the message and the branch taken
ClassifyIntent ==
    /\ \E message \in INTENT_MESSAGES :
        probe' = [op |-> "classify", message |-> message,
                  branch |-> IntentReturns[message],
                  guidance |-> guidance_read(IntentReturns[message]),
                  system_prompt |-> SystemPromptOf(IntentReturns[message])]
    /\ UNCHANGED <<db, conversations, leads, cache, first_returned, uuids, started,
                   langflow, turn, faults, live>>

UnitInit ==
    /\ conversations = <<>>
    /\ leads = <<>>
    /\ cache = <<>>
    /\ first_returned = <<>>
    /\ uuids = 0
    /\ started = 0
    /\ langflow = TRUE
    /\ turn = [w \in Handlers |-> IdleTurn]
    /\ faults = FALSE
    /\ db = constructed(FreshDb, TRUE)
    /\ probe = NoProbe
    /\ live = {}

UnitNext ==
    \/ ExtractField
    \/ ExtractConsentWithRegex
    \/ ClassifyIntent

UnitSpec == UnitInit /\ [][UnitNext]_vars

(***************************************************************************)
(* Properties of the turn pipeline                                         *)

(***************************************************************************)
(* Specification: save_conversation_history called on its own on the       *)
(* conversations table, with the timestamps it writes; and the same with    *)
(* delete_document called on the table between the saves                    *)
(***************************************************************************)
\* how many save_conversation_history calls are made
MaxSaves == 4

\* the sessions that are saved
SAVE_SESSIONS == {"s1", "s2"}

\* the histories that are saved
SAVE_MESSAGES ==
    {<<Msg("user", M_FULL), Msg("assistant", "Sure.")>>,
     <<Msg("user", M_FULL), Msg("assistant", "Sure."),
       Msg("user", M_BUDGET), Msg("assistant", "Sure.")>>}

\* the clock reading of the last call (0 before the first)
Clock == IF "timestamp" \in DOMAIN probe THEN probe.timestamp ELSE 0

\* save_conversation_history(user_id, session_id, messages, db_handler); the
\* clock has advanced since the last call
SaveConversationHistory ==
    /\ Clock < MaxSaves
    /\ \E user_id \in Users, session_id \in SAVE_SESSIONS, messages \in SAVE_MESSAGES :
        /\ conversations' = save_conversation_history_at(conversations, user_id,
                                    session_id, messages, Clock + 1)
        /\ probe' = [op |-> "save_conversation_history", user_id |-> user_id,
                      session_id |-> session_id, messages |-> messages,
                      timestamp |-> Clock + 1, before |-> conversations,
                      returned |-> save_returns(conversations, session_id)]
    /\ UNCHANGED <<leads, cache, first_returned, uuids, started, langflow, turn,
                   faults, db, live>>

\* db_handler.delete_document("conversations", doc_id) for a stored conversation
DeleteConversation ==
    /\ \E i \in 1..Len(conversations) :
        /\ conversations' = delete_document(conversations, IntId(conversations[i].doc_id))
        /\ probe' = [op |-> "delete_document", doc_id |-> conversations[i].doc_id,
                      timestamp |-> Clock, before |-> conversations,
                      returned |-> found_document(conversations,
                                                  IntId(conversations[i].doc_id))]
    /\ UNCHANGED <<leads, cache, first_returned, uuids, started, langflow, turn,
                   faults, db, live>>

SaveInit ==
    /\ conversations = <<>>
    /\ leads = <<>>
    /\ cache = <<>>
    /\ first_returned = <<>>
    /\ uuids = 0
    /\ started = 0
    /\ langflow = TRUE
    /\ turn = [w \in Handlers |-> IdleTurn]
    /\ faults = FALSE
    /\ db = constructed(FreshDb, TRUE)
    /\ probe = NoProbe
    /\ live = {}

SaveNext == SaveConversationHistory

SaveSpec == SaveInit /\ [][SaveNext]_vars

SaveDeleteNext ==
    \/ SaveConversationHistory
    \/ DeleteConversation

SaveDeleteSpec == SaveInit /\ [][SaveDeleteNext]_vars

(***************************************************************************)
\* the session ids that occur: the client's own and the generated ones
SessionIds == {CLIENT_SESSION} \cup {Uuid(n) : n \in 1..MaxTurns}

\* a is a prefix of b
IsPrefix(a, b) == Len(a) <= Len(b) /\ SubSeq(b, 1, Len(a)) = a

\* the turn has returned and has saved its history (the direct-LLM fallback
\* returns without saving when its completion call fails)
SavedTurn(w) ==
    turn[w].pc = "done" /\ (langflow \/ ~turn[w].completion_failed)

PriorHistory(w) ==
    IF turn[w].loaded = <<>> /\ ~langflow
    THEN <<Msg("system", DEFAULT_SYSTEM_PROMPT)>>
    ELSE turn[w].loaded

\* after a saved turn the stored messages of its session are the prior
\* history, then the turn's user message, then its assistant response
C2_Appended ==
    \A w \in Handlers :
        SavedTurn(w) =>
            get_conversation_history(conversations, turn[w].session_id)
                = PriorHistory(w) \o <<Msg("user", turn[w].message),
                                       Msg("assistant", turn[w].result[1])>>

\* no step drops or reorders a stored message: what a session's next turn
\* loads has what was stored before as a prefix
C2_Extended ==
    \A s \in SessionIds :
        IsPrefix(get_conversation_history(conversations, s),
                 get_conversation_history(conversations', s))

\* C2: for turns in a row on one session_id, the history loaded at the start
\* of a turn has every message of the previous turn's history as a prefix
\* (nothing dropped or reordered), and after a successful turn the stored
\* messages are the prior history, then the user message, then the response.
C2_HistoryAppendOnly == [](C2_Appended) /\ [][C2_Extended]_vars

\* a second turn on a session has loaded the first turn's two messages and
\* stored four
C2_Witness ==
    \E w \in Handlers :
        /\ SavedTurn(w)
        /\ Len(turn[w].loaded) = 2
        /\ Len(get_conversation_history(conversations, turn[w].session_id)) = 4

\* the three conditions of the storage-eligibility gate
AllThree(lead_data) ==
    /\ lead_data.client_name # None /\ lead_data.client_name # ""
    /\ lead_data.contact_information # None /\ lead_data.contact_information # ""
    /\ lead_data.confirmed_follow_up = TRUE

\* the eight combinations of the three gate fields being present or missing
GateCases ==
    {[EmptyLead EXCEPT !.client_name = n, !.contact_information = c,
                       !.confirmed_follow_up = f] :
        n \in {None, "John Smith"}, c \in {None, "john@example.com"}, f \in BOOLEAN}

OwnerOf(session_id) ==
    conversations[Min(query_session(conversations, session_id))].data.user_id

\* the call carries a session_id whose stored conversation another user made
ForeignSession(w) ==
    /\ turn[w].pc # "idle"
    /\ Truthy(turn[w].session_id_arg)
    /\ query_session(conversations, turn[w].session_id_arg) # {}
    /\ OwnerOf(turn[w].session_id_arg) # turn[w].user_id

\* C4: a session belongs to one user_id for its lifetime: a call that carries
\* a session_id whose stored conversation was created by a different user_id
\* is rejected or answered with a different session_id, and neither reads nor
\* appends to the other user's conversation.
C4_SessionOwnedByOneUser ==
    \A w \in Handlers :
        ForeignSession(w) =>
            /\ turn[w].loaded = <<>>
            /\ turn[w].session_id # turn[w].session_id_arg
            /\ turn[w].pc = "done" => turn[w].result[2] # turn[w].session_id_arg

\* C5: when the completion call fails while the turn's response is generated,
\* process_chat_message does not raise: it returns the fixed apology text with
\* the session_id it would have returned on success (the supplied one, or the
\* one generated at the start of the call).
C5_ApologyKeepsSession ==
    \A w \in Handlers :
        (turn[w].pc = "done" /\ turn[w].completion_failed) =>
            /\ turn[w].result[1] = "I'm sorry, I encountered an error. Please try again later."
            /\ turn[w].result[2] = turn[w].session_id
            /\ Truthy(turn[w].session_id_arg) => turn[w].result[2] = turn[w].session_id_arg
            /\ ~Truthy(turn[w].session_id_arg) =>
                    turn[w].result[2] = "uuid-" \o CharAt(DIGITS, uuids + 1)

\* the direct-LLM fallback has returned the apology with the identifier the
\* call generated, the second one drawn
C5_Witness ==
    \E w \in Handlers :
        /\ turn[w].pc = "done"
        /\ turn[w].completion_failed
        /\ ~langflow
        /\ turn[w].session_id_arg = None
        /\ turn[w].result = <<APOLOGY, "uuid-2">>

\* C6: a call with an absent session_id generates a fresh non-empty
\* identifier before it loads the history, and returns it; the identifiers of
\* two such calls differ, and differ from every session_id already stored.
C6_FreshSessionId ==
    /\ \A w \in Handlers :
        (turn[w].pc # "idle" /\ ~Truthy(turn[w].session_id_arg)) =>
            /\ Truthy(turn[w].session_id)
            /\ uuids >= 1
            /\ turn[w].session_id = "uuid-" \o CharAt(DIGITS, uuids + 1)
            /\ turn[w].loaded = <<>>
            /\ turn[w].pc = "done" => turn[w].result[2] = turn[w].session_id
    /\ \A m, n \in 1..uuids : m # n => generate_session_id(m) # generate_session_id(n)
    /\ \A n \in 1..MaxTurns :
        n > uuids =>
            /\ query_session(conversations, generate_session_id(n)) = {}
            /\ generate_session_id(n) # CLIENT_SESSION

\* the second call without a session_id has returned the second identifier
\* while the first one's conversation is stored
C6_Witness ==
    \E w \in Handlers :
        /\ turn[w].pc = "done"
        /\ turn[w].session_id_arg = None
        /\ uuids = 2
        /\ turn[w].result[2] = "uuid-2"
        /\ query_session(conversations, "uuid-1") # {}
        /\ query_session(conversations, "uuid-2") # {}

\* an extract_entity_with_llm call has just returned to extract_lead_information
CallReturned(w) == turn[w].last_call.entity_type # None

\* C7 as stated: for every (conversation_text, entity_kind) a second call with
\* the same arguments returns the value of the first call, from the cache,
\* without a second completion call.
C7_SecondCallFromCache ==
    \A w \in Handlers :
        (CallReturned(w) /\ turn[w].last_call.repeated) =>
            /\ turn[w].last_call.cached
            /\ turn[w].last_call.calls = 0
            /\ turn[w].last_call.value = turn[w].last_call.earlier

\* C7: a later extract_entity_with_llm call with the same (conversation_text,
\* entity_kind) returns the value of the first call, from the cache, without a
\* completion call, whenever the first call returned a value (a first call
\* that returned None cached nothing, so the next call asks again).
C7_SecondCallOfFoundValue ==
    \A w \in Handlers :
        (CallReturned(w) /\ turn[w].last_call.repeated
                        /\ turn[w].last_call.earlier # None) =>
            /\ turn[w].last_call.cached
            /\ turn[w].last_call.calls = 0
            /\ turn[w].last_call.value = turn[w].last_call.earlier

\* a second turn has asked again for the client name of the same text and got
\* the cached "John Smith" without a completion call
C7_Witness ==
    \E w \in Handlers :
        /\ turn[w].last_call.entity_type = "client name"
        /\ turn[w].last_call.repeated
        /\ turn[w].last_call.earlier = "John Smith"
        /\ turn[w].last_call.cached
        /\ turn[w].last_call.calls = 0
        /\ turn[w].last_call.value = "John Smith"

\* the lead field extract_lead_information assigns for an entity kind
FieldOf(lead_data, entity_type) ==
    CASE entity_type = "client name" -> lead_data.client_name
      [] entity_type = "business name" -> lead_data.client_business
      [] entity_type = "project description" -> lead_data.project_description
      [] entity_type = "project features" -> lead_data.features
      [] entity_type = "project timeline" -> lead_data.timeline
      [] entity_type = "budget range" -> lead_data.budget_range
      [] entity_type = "follow-up consent (yes/no)" -> lead_data.confirmed_follow_up

\* the position of an entity kind in the order of extraction
KindIndex(entity_type) == CHOOSE i \in 1..Len(ENTITY_KINDS) : ENTITY_KINDS[i] = entity_type

\* what the field of an entity kind holds when only the regex layer found it
RegexField(conversation_text, entity_type) ==
    FieldOf(SetField(EmptyLead, entity_type,
                     Analysis[conversation_text].regex[KindIndex(entity_type)]),
            entity_type)

\* the text is an absence token in some spelling
IsSentinel(text) ==
    text # None /\ Lower(Strip(text)) \in {"not found", "none", "n/a", "unknown"}

\* C8: whenever the primary (LLM) strategy answers with an absence token (in
\* any case: "not found", "none", "n/a", "unknown"), the lead field gets None
\* or the regex-fallback value, never the token's text, and the token is never
\* written to the cache.
C8_SentinelNeverStored ==
    /\ \A w \in Handlers :
        (CallReturned(w) /\ IsSentinel(turn[w].last_call.answer)) =>
            /\ turn[w].last_call.value = None
            /\ FieldOf(turn[w].lead_data, turn[w].last_call.entity_type)
                    = RegexField(turn[w].extraction_text, turn[w].last_call.entity_type)
            /\ ~IsSentinel(turn[w].lead_data.client_name)
            /\ ~IsSentinel(turn[w].lead_data.client_business)
            /\ ~IsSentinel(turn[w].lead_data.project_description)
            /\ ~IsSentinel(turn[w].lead_data.timeline)
            /\ ~IsSentinel(turn[w].lead_data.budget_range)
            /\ \A i \in 1..Len(turn[w].lead_data.features) :
                    ~IsSentinel(turn[w].lead_data.features[i])
    /\ \A key \in DOMAIN cache : ~IsSentinel(cache[key])

\* the completion answered "Not found" for the client name, nothing was
\* cached for it, and the field holds the name the regex layer found
C8_Witness ==
    \E w \in Handlers :
        /\ turn[w].last_call.entity_type = "client name"
        /\ turn[w].last_call.answer = "Not found"
        /\ turn[w].last_call.value = None
        /\ turn[w].lead_data.client_name = "John Smith"
        /\ cache_key(turn[w].extraction_text, "client name") \notin DOMAIN cache

\* a handler inside extract_entity_with_llm's retry loop runs its next pass:
\* the completion call returns or raises within its timeout, and the sleep
\* between passes is finite
LiveSpec == Spec /\ \A w \in Handlers : WF_vars(ExtractAttempt(w))

\* every completion call of the last extract_entity_with_llm call raised
AllAttemptsFailed(w) ==
    /\ CallReturned(w)
    /\ ~turn[w].last_call.cached
    /\ turn[w].last_call.answer = None

\* inside the loop the calls made so far are the failed ones, at most
\* max_retries; a returned call made at most max_retries + 1 = 3 calls, it
\* stopped at the first answer, and if every call failed there were exactly 3
\* and it returned None
C9_AttemptsBounded ==
    /\ max_retries + 1 = 3
    /\ \A w \in Handlers :
        /\ turn[w].pc = "attempt" =>
            /\ turn[w].calls = turn[w].retry_count
            /\ turn[w].retry_count <= max_retries
        /\ CallReturned(w) =>
            /\ turn[w].last_call.calls <= 3
            /\ turn[w].last_call.answer # None =>
                    turn[w].last_call.calls = turn[w].last_call.failed + 1
            /\ AllAttemptsFailed(w) =>
                /\ turn[w].last_call.calls = 3
                /\ turn[w].last_call.failed = 3
                /\ turn[w].last_call.value = None

\* a handler in the retry loop leaves it
C9_LoopEnds ==
    \A w \in Handlers : (turn[w].pc = "attempt") ~> (turn[w].pc # "attempt")

\* C9: extract_entity_with_llm always terminates and makes at most
\* max_retries + 1 completion calls per call (3 with the default of 2): it
\* stops at the first call that answers, and if every call fails it makes
\* exactly max_retries + 1 calls and returns None.
C9_RetryLoopTerminates == [](C9_AttemptsBounded) /\ C9_LoopEnds

\* a call has returned None after three failed completion calls
C9_Witness ==
    \E w \in Handlers :
        /\ AllAttemptsFailed(w)
        /\ turn[w].last_call.entity_type = "business name"
        /\ turn[w].last_call.calls = 3
        /\ turn[w].last_call.failed = 3
        /\ turn[w].last_call.value = None

\* the fields extract_lead_information returns
LEAD_FIELDS == {"client_name", "client_business", "contact_information",
                "project_description", "features", "timeline", "budget_range",
                "confirmed_follow_up"}

\* C10: completion errors during entity extraction never reach the caller:
\* whatever the pattern of failures, extract_entity_with_llm returns a value
\* or None, and extract_lead_information completes with a full lead record
\* whose LLM-backed fields come from the regex fallback.
C10_FailuresFallBackToRegex ==
    \A w \in Handlers :
        /\ AllAttemptsFailed(w) =>
            /\ turn[w].last_call.value = None
            /\ turn[w].pc \in {"extract", "store_lead"}
            /\ FieldOf(turn[w].lead_data, turn[w].last_call.entity_type)
                    = RegexField(turn[w].extraction_text, turn[w].last_call.entity_type)
        /\ CallReturned(w) =>
            \/ turn[w].last_call.value = None
            \/ turn[w].last_call.value \in {Strip(a) : a \in AllAnswers}
        /\ turn[w].pc = "store_lead" =>
            /\ DOMAIN turn[w].lead_data = LEAD_FIELDS
            /\ turn[w].last_call.entity_type = ENTITY_KINDS[Len(ENTITY_KINDS)]

\* every completion call for the consent failed, as one or more did for
\* earlier kinds, and extract_lead_information has returned a record with the
\* name and the consent the regex layer found
C10_Witness ==
    \E w \in Handlers :
        /\ turn[w].pc = "store_lead"
        /\ AllAttemptsFailed(w)
        /\ turn[w].last_call.failed = 3
        /\ turn[w].lead_data.client_name = "John Smith"
        /\ turn[w].lead_data.contact_information = "john@example.com"
        /\ turn[w].lead_data.confirmed_follow_up
        /\ DOMAIN cache = {}

\* what the field of an entity kind holds when the primary strategy found it
PrimaryField(entity_type, value) ==
    FieldOf(SetField(EmptyLead, entity_type, value), entity_type)

\* C11: for each LLM-backed entity kind the field of the lead is the primary
\* extractor's value whenever that value is not None, and the regex fallback's
\* value otherwise; the regex value is used only after the primary returned
\* None.
C11_PrimaryThenRegex ==
    \A w \in Handlers :
        CallReturned(w) =>
            FieldOf(turn[w].lead_data, turn[w].last_call.entity_type)
                = IF turn[w].last_call.value # None
                  THEN PrimaryField(turn[w].last_call.entity_type, turn[w].last_call.value)
                  ELSE RegexField(turn[w].extraction_text, turn[w].last_call.entity_type)

\* the primary strategy answered "No" for the consent of a text in which the
\* regex layer finds consent, and the field follows the primary
C11_Witness ==
    \E w \in Handlers :
        /\ turn[w].last_call.entity_type = "follow-up consent (yes/no)"
        /\ turn[w].last_call.value = "No"
        /\ RegexField(turn[w].extraction_text, "follow-up consent (yes/no)") = TRUE
        /\ turn[w].lead_data.confirmed_follow_up = FALSE
        /\ turn[w].lead_data.client_name = "John Smith"

\* the kinds extract_lead_information asks the completion capability for
LLM_KINDS == {"client name", "business name", "project description",
              "project features", "project timeline", "budget range",
              "follow-up consent (yes/no)"}

\* C12: the extraction of contact_information never invokes the completion
\* capability: every completion call of an extract_lead_information run is
\* for one of the seven other kinds, and the field is the first e-mail match
\* of the conversation text, or None.
C12_EmailWithoutCompletion ==
    \A w \in Handlers :
        /\ turn[w].pc = "attempt" =>
            /\ turn[w].ent \in 1..7
            /\ ENTITY_KINDS[turn[w].ent] \in LLM_KINDS
        /\ CallReturned(w) => turn[w].last_call.entity_type \in LLM_KINDS
        /\ turn[w].pc \in {"extract", "attempt"} =>
            turn[w].lead_data.contact_information =
                IF turn[w].ent <= 2 THEN None
                ELSE IF Contains(turn[w].extraction_text, "john@example.com")
                     THEN "john@example.com" ELSE None
        /\ turn[w].pc = "store_lead" =>
            turn[w].lead_data.contact_information =
                IF Contains(turn[w].extraction_text, "john@example.com")
                THEN "john@example.com" ELSE None

\* the run has filled the contact field from the text while every completion
\* call so far failed
C12_Witness ==
    \E w \in Handlers :
        /\ turn[w].pc = "extract"
        /\ turn[w].ent = 3
        /\ turn[w].last_call.failed = 3
        /\ turn[w].lead_data.contact_information = "john@example.com"
        /\ DOMAIN cache = {}

\* C13: the lead record extract_lead_information produces has a project_type
\* field that holds detect_project_type's result for the same conversation,
\* and the record handed to the leads table has that field.
C13_LeadCarriesProjectType ==
    /\ \A w \in Handlers :
        turn[w].pc = "store_conversation" =>
            /\ "project_type" \in DOMAIN turn[w].lead_data
            /\ turn[w].lead_data["project_type"] = turn[w].project_type
    /\ \A i \in 1..Len(leads) : "project_type" \in DOMAIN leads[i].data

\* C15: after the first turn of a new session the stored conversation has a
\* system message as element 0, and every later state of that session's
\* stored history keeps that system message at index 0.
C15_SystemMessageFirst ==
    \A session_id \in SessionIds :
        query_session(conversations, session_id) # {} =>
            /\ get_conversation_history(conversations, session_id) # <<>>
            /\ get_conversation_history(conversations, session_id)[1].role = "system"

\* C17: the conversations table holds at most one document per session_id:
\* each turn after the first updates the existing document instead of adding
\* another.
C17_OneDocumentPerSession ==
    \A session_id \in SessionIds :
        Cardinality(query_session(conversations, session_id)) <= 1

(***************************************************************************)
(* C14                                                                     *)
(***************************************************************************)
\* the labels of the priority list, in their order
C14_Labels ==
    <<"e-commerce", "corporate", "blog", "mobile app", "web application", "api", "dashboard">>

\* the labels the lower-cased conversation text of the last call contains
C14_Hits ==
    {i \in 1..Len(C14_Labels) :
        Contains(Lower(ConversationText(probe.conversation_history)), C14_Labels[i])}

\* the last call's lower-cased conversation text contains one of the keywords
C14_Has(keywords) ==
    \E k \in keywords : Contains(Lower(ConversationText(probe.conversation_history)), k)

\* C14: detect_project_type returns the first label of the priority list that the
\* conversation text contains, whatever the case and wherever it occurs; with no label
\* in the text it returns the first of e-commerce, corporate, blog whose keyword group
\* has a word in the text; otherwise it returns None.
C14_PriorityScan ==
    probe.op = "detect_project_type" =>
        probe.returned =
            IF C14_Hits # {}
            THEN C14_Labels[CHOOSE i \in C14_Hits : \A j \in C14_Hits : i <= j]
            ELSE IF C14_Has({"shop", "store", "product", "cart", "checkout", "payment"})
            THEN "e-commerce"
            ELSE IF C14_Has({"company", "business", "corporate", "professional",
                             "organization"})
            THEN "corporate"
            ELSE IF C14_Has({"blog", "content", "article", "post", "cms"})
            THEN "blog"
            ELSE None

\* the text names "Blog" first and "E-Commerce" after it, and e-commerce is returned
C14_Witness ==
    /\ probe.op = "detect_project_type"
    /\ Len(probe.conversation_history) = 2
    /\ probe.conversation_history[1].content = "I need a Blog"
    /\ probe.conversation_history[2].content = "an E-Commerce shop"
    /\ probe.returned = "e-commerce"

(***************************************************************************)
(* C18, C19                                                                *)
(***************************************************************************)
\* the positions in the table, as it was before the last call, of the documents
\* whose id the call names
C18_Named ==
    {i \in 1..Len(probe.before) : probe.before[i].doc_id = AsDocId(probe.doc_id)}

\* C18: update_document on an existing document returns True and merges: the fields
\* named in the update take the new values, the other fields keep theirs, new fields
\* are added, and no other document of the table changes.
C18_UpdateMerges ==
    (probe.op = "update_document" /\ C18_Named # {}) =>
        /\ probe.returned
        /\ Len(db.test) = Len(probe.before)
        /\ \A i \in 1..Len(probe.before) :
            IF i \in C18_Named
            THEN /\ db.test[i].doc_id = probe.before[i].doc_id
                 /\ DOMAIN db.test[i].data
                        = DOMAIN probe.before[i].data \cup DOMAIN probe.data
                 /\ \A field \in DOMAIN probe.data :
                        db.test[i].data[field] = probe.data[field]
                 /\ \A field \in DOMAIN probe.before[i].data \ DOMAIN probe.data :
                        db.test[i].data[field] = probe.before[i].data[field]
            ELSE db.test[i] = probe.before[i]

\* C19: update_document and delete_document with an id that no document of the table
\* has return False and leave the table as it was; get_document with such an id
\* returns None.
C19_AbsentId ==
    (probe.op \in {"update_document", "delete_document", "get_document"}
     /\ C18_Named = {}) =>
        /\ db.test = probe.before
        /\ probe.op \in {"update_document", "delete_document"} => ~probe.returned
        /\ probe.op = "get_document" => probe.got = <<>>

\* an update that names fields, with the id after the last one of a table that holds
\* two documents
C19_Witness ==
    /\ probe.op = "update_document"
    /\ Len(probe.before) = 2
    /\ probe.doc_id = [type |-> "int", int |-> 3]
    /\ DOMAIN probe.data # {}
    /\ ~probe.returned
    /\ db.test = probe.before

(***************************************************************************)
(* C20                                                                     *)
(***************************************************************************)
\* query_table(table_name, "project_type", project_type): the rows returned
C20_Query(table_name, project_type) ==
    {i \in 1..Len(db[table_name]) : db[table_name][i].data.project_type = project_type}

\* C20: however many DatabaseHandler objects are constructed on the database, a
\* guidance table is seeded only while it is empty: once a handler was constructed with
\* initialize_default_data, each of the two tables holds exactly one row for each
\* default project type, and a constructor that finds a table with rows leaves it alone.
C20_SeedingIdempotent ==
    \A table_name \in {"budget_guidance", "timeline_guidance"} :
        /\ db[table_name] # <<>> =>
                \A project_type \in {"e-commerce", "corporate", "blog"} :
                    Cardinality(C20_Query(table_name, project_type)) = 1
        /\ probe.op = "construct" =>
                /\ probe.initialize_default_data => db[table_name] # <<>>
                /\ probe.db_before[table_name] # <<>> =>
                        db[table_name] = probe.db_before[table_name]

\* the second handler is constructed with initialize_default_data on a database the
\* first one has seeded
C20_Witness ==
    /\ probe.op = "construct"
    /\ probe.initialize_default_data
    /\ db.handlers = 2
    /\ probe.db_before.budget_guidance # <<>>
    /\ Len(db.budget_guidance) = 3
    /\ Len(db.timeline_guidance) = 3

(***************************************************************************)
(* C16                                                                     *)
(***************************************************************************)
\* C16: when the completion call of a turn answered, process_chat_message returns
\* that answer with the session id, whether or not the writes of the turn (lead,
\* conversation insert or update) succeeded and the database could be opened.
C16_ResponseDespiteFailure ==
    \A w \in Handlers :
        (turn[w].pc = "done" /\ turn[w].llm_messages # <<>> /\ ~turn[w].completion_failed) =>
            /\ turn[w].result[1] \in Completions
            /\ turn[w].result[2] = turn[w].session_id

(***************************************************************************)
(* C21                                                                     *)
(***************************************************************************)
\* str(doc_id), as the tests pass an id to get_document
C21_Str(doc_id) == CharAt(DIGITS, doc_id + 1)

\* C21: after any sequence of add_document, update_document and delete_document on a
\* table, get_table_data returns exactly the documents that were added and not
\* successfully deleted, one for each id; get_document finds each of them by the id
\* add_document returned; and after a delete that returned True get_document returns
\* None for that id.
C21_TableIsAddedMinusDeleted ==
    /\ {db.test[i].doc_id : i \in 1..Len(db.test)} = live
    /\ Len(db.test) = Cardinality(live)
    /\ \A doc_id \in live :
            get_document(db.test, [type |-> "str", str |-> C21_Str(doc_id)]) # <<>>
    /\ (probe.op = "delete_document" /\ probe.returned) =>
            get_document(db.test, [type |-> "str", str |-> C21_Str(AsDocId(probe.doc_id))])
                = <<>>
    /\ probe.op = "update_document" => Len(db.test) = Len(probe.before)

\* the second of two documents was deleted, the first is still there
C21_Witness ==
    /\ probe.op = "delete_document"
    /\ probe.returned
    /\ Len(probe.before) = 2
    /\ AsDocId(probe.doc_id) = 2
    /\ live = {1}
    /\ Len(db.test) = 1

(***************************************************************************)
(* C22, C23                                                                *)
(***************************************************************************)
\* the user message and the assistant response of the turn a handler is in
C22_Exchange(w) ==
    <<Msg("user", turn[w].message), Msg("assistant", turn[w].response_text)>>

\* C22: the text extract_lead_information works on in a turn is the text of the
\* history loaded for the turn followed by the turn's user message and assistant
\* response.
C22_ExtractionOverUpdatedHistory ==
    \A w \in Handlers :
        turn[w].pc \in {"extract", "attempt"} =>
            turn[w].extraction_text = ConversationText(turn[w].loaded \o C22_Exchange(w))

\* C23: whenever the lead of a turn has been written, the stored history of the
\* turn's session already ends with the turn's user message and assistant response.
C23_HistorySavedBeforeLead ==
    \A w \in Handlers :
        turn[w].lead_id # 0 =>
            get_conversation_history(conversations, turn[w].session_id)
                = turn[w].loaded \o C22_Exchange(w)

(***************************************************************************)
(* C24, C26                                                                *)
(***************************************************************************)
\* how many times the turn's user message stands in what the turn added to the
\* loaded history
C24_TimesAppended(w) ==
    Cardinality({i \in (Len(turn[w].loaded) + 1)..Len(turn[w].conversation_history) :
                    turn[w].conversation_history[i] = Msg("user", turn[w].message)})

\* C24: a process_chat_message call appends the user message to the history at most
\* once, and it makes the direct completion call only if no completion call for the
\* response was made before in the same call.
C24_TurnNotRetried ==
    /\ [](\A w \in Handlers : C24_TimesAppended(w) <= 1)
    /\ [][\A w \in Handlers :
            (turn[w].pc = "fallback" /\ turn'[w].pc # "fallback") =>
                turn[w].llm_messages = <<>>]_vars

\* C26: when process_message got a response from the completion capability and no
\* completion call of the turn failed, the text the turn returns is not an apology,
\* whatever happened to the extraction and to the lead and conversation writes.
C26_OtherFailuresSilent ==
    \A w \in Handlers :
        (turn[w].pc = "done" /\ turn[w].extraction_text # None
         /\ ~turn[w].completion_failed) =>
            turn[w].result[1] \notin {APOLOGY, PROCESSING_APOLOGY}

(***************************************************************************)
(* C27                                                                     *)
(***************************************************************************)
\* the k-th comma of a text: its position
C27_Comma(text, k) ==
    CHOOSE c \in 1..Len(text) :
        /\ CharAt(text, c) = ","
        /\ Cardinality({d \in 1..(c - 1) : CharAt(text, d) = ","}) = k - 1

\* the segments between the commas of a text, each trimmed, in their order
C27_Trimmed(text) ==
    LET n == Cardinality({c \in 1..Len(text) : CharAt(text, c) = ","})
    IN  [k \in 1..(n + 1) |->
            Strip(SubSeq(text,
                         IF k = 1 THEN 1 ELSE C27_Comma(text, k - 1) + 1,
                         IF k = n + 1 THEN Len(text) ELSE C27_Comma(text, k) - 1))]

\* the features text the last call used: the primary value, else the regex value
C27_Text ==
    IF probe.primary # None THEN probe.primary
    ELSE extract_with_regex(probe.conversation_text, "project features")

\* C27 as stated: the features field is the trimmed segments of the features text if
\* the text holds a comma, and the empty sequence if there is no text or no comma in it.
C27_FeaturesOnlyWithComma ==
    (probe.op = "extract_lead_information" /\ probe.entity_type = "project features") =>
        probe.lead_data.features =
            IF C27_Text # None /\ Contains(C27_Text, ",")
            THEN C27_Trimmed(C27_Text) ELSE <<>>

\* C27 amended: the features field is the empty sequence if no text was extracted or
\* the text is empty; for every other text it is the trimmed segments between the
\* commas in their order, which for a text without a comma is the one trimmed text.
C27_FeaturesOfAnyText ==
    (probe.op = "extract_lead_information" /\ probe.entity_type = "project features") =>
        probe.lead_data.features =
            IF C27_Text = None \/ C27_Text = "" THEN <<>> ELSE C27_Trimmed(C27_Text)

\* a features text without a comma gives a sequence of one feature
C27_Witness ==
    /\ probe.op = "extract_lead_information"
    /\ probe.entity_type = "project features"
    /\ probe.primary = None
    /\ probe.conversation_text = "It must have a blog."
    /\ probe.lead_data.features = <<"a blog">>

(***************************************************************************)
(* C29                                                                     *)
(***************************************************************************)
\* every text one of the three affirmative-consent patterns matches, in lower case
C29_Phrases ==
    {a \o p \o " " \o b \o " " \o c :
        a \in {"yes", "sure", "okay", "fine", "alright"}, p \in {",", ".", ""},
        b \in {"you can", "please"}, c \in {"contact", "email", "call", "follow up"}}
    \cup
    {a \o " " \o c :
        a \in {"feel free to", "please"}, c \in {"contact", "email", "call", "follow up"}}
    \cup
    {a \o " " \o b \o " " \o c :
        a \in {"happy to", "willing to"}, b \in {"discuss", "talk", "chat"},
        c \in {"more", "further", "again"}}

\* a text holds an affirmative-consent phrase, whatever the case
C29_Affirmative(text) == \E phrase \in C29_Phrases : Contains(Lower(text), phrase)

\* C29: extract_with_regex for the follow-up consent returns "yes" exactly when an
\* affirmative-consent pattern matches the text case-insensitively, and "no" otherwise;
\* it never returns None.
C29_RegexConsentTotal ==
    probe.op = "extract_with_regex" =>
        probe.returned = IF C29_Affirmative(probe.conversation_text) THEN "yes" ELSE "no"

\* a capitalised consent phrase is found
C29_Witness ==
    /\ probe.op = "extract_with_regex"
    /\ probe.conversation_text = "Feel free to call me"
    /\ probe.returned = "yes"

(***************************************************************************)
(* C28                                                                     *)
(***************************************************************************)
\* the consent text the last call used: the primary value, else the regex value
C28_Text ==
    IF probe.primary # None THEN probe.primary
    ELSE IF C29_Affirmative(probe.conversation_text) THEN "yes" ELSE "no"

\* C28: confirmed_follow_up is true if and only if the consent text used, the primary
\* value or else the regex value, is "yes", "true" or "confirmed" in any case.
C28_ConsentIffAffirmative ==
    (probe.op = "extract_lead_information"
     /\ probe.entity_type = "follow-up consent (yes/no)") =>
        (probe.lead_data.confirmed_follow_up
            <=> Lower(C28_Text) \in {"yes", "true", "confirmed"})

\* an upper-case primary answer confirms although the regex layer says no
C28_Witness ==
    /\ probe.op = "extract_lead_information"
    /\ probe.entity_type = "follow-up consent (yes/no)"
    /\ probe.primary = "TRUE"
    /\ probe.conversation_text = "Hello there"
    /\ probe.lead_data.confirmed_follow_up

(***************************************************************************)
(* C30                                                                     *)
(***************************************************************************)
\* the lower-cased message of the last call holds one of the keywords
C30_Has(keywords) == \E k \in keywords : Contains(Lower(probe.message), k)

\* the branch the claim gives the last message
C30_Branch ==
    IF C30_Has({"budget", "cost", "price", "pricing", "how much", "expensive", "cheap",
                "afford"})
    THEN "budget"
    ELSE IF C30_Has({"timeline", "time", "duration", "how long", "schedule", "deadline",
                     "when"})
    THEN "timeline"
    ELSE "default"

\* C30: a message with a budget keyword takes the budget branch, also when it holds a
\* timeline keyword; a message with a timeline keyword and no budget keyword takes the
\* timeline branch; every other message takes the default branch; and only the guidance
\* table of the branch taken is read.
C30_OneBranchBudgetFirst ==
    probe.op = "classify" =>
        /\ probe.branch = C30_Branch
        /\ probe.guidance = IF C30_Branch = "budget" THEN {"budget_guidance"}
                             ELSE IF C30_Branch = "timeline" THEN {"timeline_guidance"}
                             ELSE {}

\* a message with keywords of both kinds takes the budget branch
C30_Witness ==
    /\ probe.op = "classify"
    /\ probe.message = "I cannot afford delays in the schedule"
    /\ probe.branch = "budget"
    /\ probe.guidance = {"budget_guidance"}

(***************************************************************************)
(* C25                                                                     *)
(***************************************************************************)
\* C25: nothing protects the time between the load and the save of a turn: the save
\* of a turn stores the history the turn loaded followed by its own messages, whatever
\* another turn of the session has stored since the load.
C25_LastWriteWins ==
    [][\A w \in Workers :
        (turn[w].pc \in {"save", "fallback_save"} /\ turn'[w].pc = "done") =>
            get_conversation_history(conversations', turn'[w].session_id)
                = turn'[w].conversation_history]_vars

\* two turns of one session loaded the same history and both have saved; the stored
\* history is the second one's and holds nothing of the first one's message
C25_Witness ==
    /\ turn[1].pc = "done" /\ turn[2].pc = "done"
    /\ turn[1].session_id = turn[2].session_id
    /\ turn[1].loaded = turn[2].loaded
    /\ turn[1].message # turn[2].message
    /\ ~turn[1].completion_failed /\ ~turn[2].completion_failed
    /\ get_conversation_history(conversations, turn[2].session_id)
            = turn[2].conversation_history
    /\ \A i \in 1..Len(turn[2].conversation_history) :
            turn[2].conversation_history[i].content # turn[1].message

(***************************************************************************)
(* C31                                                                     *)
(***************************************************************************)
\* the messages of a history that are not system messages
C31_WithoutSystem(history) == SelectSeq(history, LAMBDA msg : msg.role # "system")

\* C31: every message list sent to the completion capability for the response holds
\* exactly one system message, which is its first element, then the stored history of
\* the session without its system messages, then the current user message.
C31_OneSystemMessageFirst ==
    \A w \in Handlers :
        LET sent == turn[w].llm_messages
        IN  sent # <<>> =>
                /\ sent[1].role = "system"
                /\ SubSeq(sent, 2, Len(sent)) =
                        C31_WithoutSystem(turn[w].loaded) \o <<Msg("user", turn[w].message)>>

(***************************************************************************)
(* C32                                                                     *)
(***************************************************************************)
\* the project type of the stored history followed by the current user message
C32_TypeOfHistoryAndMessage(t) ==
    DetectInText(ConversationText(Append(t.loaded, Msg("user", t.message))))

\* C32: in the budget and timeline branches the project type used for the guidance
\* lookup is the one detected in the stored history followed by the current user
\* message, also when the session already has a history.
C32_TypeFromHistoryAndMessage ==
    [][\A w \in Handlers :
        (turn[w].pc = "process_message" /\ turn'[w].pc # "process_message"
            /\ turn'[w].branch \in {"budget", "timeline"}) =>
                turn'[w].project_type = C32_TypeOfHistoryAndMessage(turn'[w])]_vars

(***************************************************************************)
(* C33                                                                     *)
(***************************************************************************)
\* where the conversations of a session are in a table
C33_Hits(table, session_id) ==
    {i \in 1..Len(table) : table[i].data["session_id"] = session_id}

C37_OtherSessionsUntouched ==
    probe.op = "save_conversation_history" =>
        \A i \in 1..Len(probe.before) :
            probe.before[i].data["session_id"] # probe.session_id =>
                \E j \in 1..Len(conversations) :
                    /\ conversations[j].doc_id = probe.before[i].doc_id
                    /\ conversations[j].data["messages"] = probe.before[i].data["messages"]

(***************************************************************************)
(* C34                                                                     *)
(***************************************************************************)
\* the delays after the first n failed attempts: 2 s, 4 s, ...
C34_Schedule(n) == [k \in 1..n |-> 2 ^ k]

\* C34: inside extract_entity_with_llm a delay occurs only after a failed attempt that
\* is followed by another attempt; the delay after the k-th failed attempt is 2^k
\* seconds, and no delay follows the last failed attempt of a call that gives up.
C34_BackoffSchedule ==
    \A w \in Handlers :
        /\ turn[w].pc = "attempt" => turn[w].slept = C34_Schedule(turn[w].retry_count)
        /\ turn[w].pc # "attempt" => turn[w].slept = <<>>
        /\ CallReturned(w) =>
                turn[w].last_call.slept =
                    C34_Schedule(IF turn[w].last_call.failed <= max_retries
                                 THEN turn[w].last_call.failed ELSE max_retries)

\* a call has given up after three failed attempts and slept 2 s and 4 s between them
C34_Witness ==
    \E w \in Handlers :
        /\ CallReturned(w)
        /\ turn[w].last_call.failed = max_retries + 1
        /\ turn[w].last_call.calls = max_retries + 1
        /\ turn[w].last_call.slept = <<2, 4>>

(***************************************************************************)
(* C35                                                                     *)
(***************************************************************************)
\* the cache key of the extract_entity_with_llm call a process made last
C35_Key(w) == <<turn[w].extraction_text, turn[w].last_call.entity_type>>

\* the cache key of the call a process is about to make
C35_NextKey(w) == <<turn[w].extraction_text, ENTITY_KINDS[turn[w].ent]>>

C36_Exchanges(messages) ==
    IF messages # <<>> /\ messages[1].role = "system" THEN Tail(messages) ELSE messages

\* user, assistant, user, assistant, ..., ending with an assistant message
C36_Alternate(messages) ==
    /\ messages # <<>>
    /\ Len(messages) % 2 = 0
    /\ \A k \in 1..Len(messages) :
            messages[k].role = IF k % 2 = 1 THEN "user" ELSE "assistant"

C38_LeadsAppendOnly ==
    [][/\ IsPrefix(leads, leads')
       /\ Len(leads') <= Len(leads) + 1
       /\ leads' # leads => \E w \in Handlers : turn[w].pc = "store_lead"
       /\ \A w \in Handlers :
            (turn[w].pc = "store_lead" /\ turn'[w].pc # "store_lead"
                /\ Eligible(turn[w].lead_data)) =>
                    /\ Len(leads') = Len(leads) + 1
                    /\ leads'[Len(leads')].data = turn[w].lead_data]_vars

\* the second turn of a session has stored a second lead, equal to the first
C38_Witness ==
    \E w \in Handlers :
        /\ turn[w].loaded # <<>>
        /\ turn[w].lead_id = 2
        /\ Len(leads) = 2
        /\ leads[1].data = leads[2].data

(***************************************************************************)
(* C39                                                                     *)
(***************************************************************************)
\* the messages stored for a session: those of its first conversation in the table
C39_Stored(table, session_id) ==
    IF \E i \in 1..Len(table) : table[i].data.session_id = session_id
    THEN table[CHOOSE i \in 1..Len(table) :
                    /\ table[i].data.session_id = session_id
                    /\ \A j \in 1..(i - 1) : table[j].data.session_id # session_id
              ].data.messages
    ELSE <<>>

====
